---------------------------- MODULE Spec2Model ----------------------------
(***************************************************************************)
(* A model of cerata/ubase/stty.c: one invocation of the tool against the  *)
(* terminal attached to standard input.                                     *)
(*                                                                          *)
(* Representation.  A flag word (tcflag_t, and the tag word of a catalog    *)
(* entry) is the set of its bit positions that are 1, so that  a & ~b  is   *)
(* a \ b,  a | b  is  a \cup b  and  (a & m) == s  is  (a \cap m) = s.      *)
(* A C string is a TLA+ string; a char is a string of length one and        *)
(* Ord gives its code.  struct termios is a record; Bytes and FromBytes     *)
(* model the view of mode as a char array, in the Linux layout (60 bytes). *)
(* The libc calls cfset[io]speed/cfget[io]speed follow their POSIX          *)
(* contract: two independent speed fields.                                  *)
(***************************************************************************)
EXTENDS Integers, Sequences, FiniteSets, TLC

VARIABLES
    argv,       \* the argument vector after argv[0]
    argp,       \* index into argv of the code's pointer argv (1-based)
    argc,       \* the code's argc
    aflag, gflag,
    mode,       \* struct termios mode: the working state
    mode2,      \* struct termios mode2: the snapshot / the re-read state
    drain_requested, output_size_requested, output_speed_requested,
    dev,        \* the terminal attributes the device holds
    winsize,    \* the window geometry the device holds
    drv,        \* how the driver treated the tcsetattr, "" before it
    outcols,    \* columns TIOCGWINSZ reported on standard output (0: it
                \* failed), -1 before printtoken asked
    calls,      \* device calls that change the device, in order
    out,        \* standard output: the lines printed
    stderr,     \* standard error: the diagnostic printed, "" if none
    status,     \* exit status, -1 while running
    pc          \* position in main

vars == <<argv, argp, argc, aflag, gflag, mode, mode2,
          drain_requested, output_size_requested, output_speed_requested,
          dev, winsize, drv, outcols, calls, out, stderr, status, pc>>

----------------------------------------------------------------------------
(* Characters *)

AsciiLow == " !\"#$%&'()*+,-./0123456789:;<=>?@ABCDEFGHIJKLMNOPQRSTUVWXYZ[\\]^_"
AsciiHigh == "abcdefghijklmnopqrstuvwxyz{|}~"

CharAt(s, i) == SubSeq(s, i, i)

IndexIn(s, c) == CHOOSE i \in 1..Len(s) : CharAt(s, i) = c

InStr(s, c) == \E i \in 1..Len(s) : CharAt(s, i) = c

Chars(s) == {CharAt(s, i) : i \in 1..Len(s)}

\* the code of every char of the two strings
Codes ==
    [c \in Chars(AsciiLow) \cup Chars(AsciiHigh) |->
        IF InStr(AsciiLow, c) THEN 31 + IndexIn(AsciiLow, c)
        ELSE 96 + IndexIn(AsciiHigh, c)]

\* the code of a char (the value of a C char holding it)
Ord(c) == Codes[c]

\* the char printf("%c") writes for a code in 32..126 ("`" has no literal)
Chr(n) ==
    IF n >= 32 /\ n <= 95 THEN CharAt(AsciiLow, n - 31)
    ELSE IF n >= 97 /\ n <= 126 THEN CharAt(AsciiHigh, n - 96)
    ELSE "?"

isdigit(c) == Ord(c) >= 48 /\ Ord(c) <= 57

isxdigit(c) ==
    \/ isdigit(c)
    \/ (Ord(c) >= 65 /\ Ord(c) <= 70)
    \/ (Ord(c) >= 97 /\ Ord(c) <= 102)

\* TRUE; it makes the evaluator compute v before going on (a long chain of
\* pending values exhausts its stack)
Evaluated(v) == v = v

RECURSIVE Pow2Upto(_)
Pow2Upto(n) ==
    IF n = 0 THEN <<1>>
    ELSE LET lower == Pow2Upto(n - 1) IN Append(lower, 2 * lower[n])

Powers == Pow2Upto(30)

Pow2(n) == Powers[n + 1]

\* the bits of a non-negative integer, and back
BitsOf(n, w) == {i \in 0..(w - 1) : (n \div Pow2(i)) % 2 = 1}

RECURSIVE SumPow2(_)
SumPow2(S) ==
    IF S = {} THEN 0
    ELSE LET i == CHOOSE j \in S : TRUE IN Pow2(i) + SumPow2(S \ {i})

----------------------------------------------------------------------------
(* <termios.h>, <sys/ttydefaults.h>, <sys/ioctl.h> (Linux) *)

NCCS == 32
TermiosSize == 60       \* sizeof(struct termios)
POSIX_VDISABLE == 0

VINTR == 0
VQUIT == 1
VERASE == 2
VKILL == 3
VEOF == 4
VTIME == 5
VMIN == 6
VSWTC == 7
VSTART == 8
VSTOP == 9
VSUSP == 10
VEOL == 11
VREPRINT == 12
VDISCARD == 13
VWERASE == 14
VLNEXT == 15
VEOL2 == 16

CINTR == 3
CQUIT == 28
CERASE == 127
CKILL == 21
CEOF == 4
CEOL == 0
CSTART == 17
CSTOP == 19
CSUSP == 26
CLNEXT == 22
CRPRNT == 18
CDISCARD == 15
CWERASE == 23

\* c_iflag
IGNBRK == {0}
BRKINT == {1}
IGNPAR == {2}
PARMRK == {3}
INPCK == {4}
ISTRIP == {5}
INLCR == {6}
IGNCR == {7}
ICRNL == {8}
IUCLC == {9}
IXON == {10}
IXANY == {11}
IXOFF == {12}
IMAXBEL == {13}
IUTF8 == {14}

\* c_oflag
OPOST == {0}
OLCUC == {1}
ONLCR == {2}
OCRNL == {3}
ONOCR == {4}
ONLRET == {5}
OFILL == {6}
OFDEL == {7}
NLDLY == {8}
NL0 == {}
NL1 == {8}
CRDLY == {9, 10}
CR0 == {}
CR1 == {9}
CR2 == {10}
CR3 == {9, 10}
TABDLY == {11, 12}
TAB0 == {}
TAB1 == {11}
TAB2 == {12}
TAB3 == {11, 12}
BSDLY == {13}
BS0 == {}
BS1 == {13}
VTDLY == {14}
VT0 == {}
VT1 == {14}
FFDLY == {15}
FF0 == {}
FF1 == {15}

\* c_cflag
CSIZE == {4, 5}
CS5 == {}
CS6 == {4}
CS7 == {5}
CS8 == {4, 5}
CSTOPB == {6}
CREAD == {7}
PARENB == {8}
PARODD == {9}
HUPCL == {10}
CLOCAL == {11}
CMSPAR == {30}
CRTSCTS == {31}

\* c_lflag
ISIG == {0}
ICANON == {1}
XCASE == {2}
ECHO == {3}
ECHOE == {4}
ECHOK == {5}
ECHONL == {6}
NOFLSH == {7}
TOSTOP == {8}
ECHOCTL == {9}
ECHOPRT == {10}
ECHOKE == {11}
FLUSHO == {12}
IEXTEN == {15}
EXTPROC == {16}

B38400 == 15
USHRT_MAX == 65535

----------------------------------------------------------------------------
(* stty.c: constants and catalogs *)

CC_MAX == 255

\* enum type
CTRL == "CTRL"
INP == "IN"
OUT == "OUT"
LOCALF == "LOCAL"
COMB == "COMB"
SPEC == "SPEC"

\* the tag enum, as bit sets: BOOL = 1, DUP = 2, ..., DEF = 16384
BOOL == {0}
DUP == {1}
SANE == {2}
INSANE == {3}
CBREAK == {4}
DECCTLQ == {5}
LCASE == {6}
PASS8 == {7}
LITOUT == {8}
CRT == {10}
DEC == {11}
NL == {12}
COOKED == {13}
DEFLT == {14}

M(op, type, set, clear, fun, flags) ==
    [op |-> op, type |-> type, set |-> set, clear |-> clear,
     fun |-> fun, flags |-> flags]

modes == <<
    M("clocal",   CTRL,  CLOCAL,  {},      "",       BOOL),
    M("cmspar",   CTRL,  CMSPAR,  {},      "",       BOOL),
    M("cread",    CTRL,  CREAD,   {},      "",       BOOL \cup SANE),
    M("crtscts",  CTRL,  CRTSCTS, {},      "",       BOOL),
    M("cs5",      CTRL,  CS5,     CSIZE,   "",       {}),
    M("cs6",      CTRL,  CS6,     CSIZE,   "",       {}),
    M("cs7",      CTRL,  CS7,     CSIZE,   "",       {}),
    M("cs8",      CTRL,  CS8,     CSIZE,   "",       DEFLT),
    M("cstopb",   CTRL,  CSTOPB,  {},      "",       BOOL),
    M("hup",      CTRL,  HUPCL,   {},      "",       BOOL \cup DUP),
    M("hupcl",    CTRL,  HUPCL,   {},      "",       BOOL \cup DEFLT),
    M("parenb",   CTRL,  PARENB,  {},      "",       BOOL \cup PASS8 \cup LITOUT),
    M("parodd",   CTRL,  PARODD,  {},      "",       BOOL),

    M("brkint",   INP,   BRKINT,  {},      "",       BOOL \cup SANE),
    M("icrnl",    INP,   ICRNL,   {},      "",       BOOL \cup SANE \cup NL),
    M("ignbrk",   INP,   IGNBRK,  {},      "",       BOOL \cup INSANE),
    M("igncr",    INP,   IGNCR,   {},      "",       BOOL \cup INSANE),
    M("ignpar",   INP,   IGNPAR,  {},      "",       BOOL),
    M("imaxbel",  INP,   IMAXBEL, {},      "",       BOOL \cup SANE),
    M("inlcr",    INP,   INLCR,   {},      "",       BOOL \cup INSANE),
    M("inpck",    INP,   INPCK,   {},      "",       BOOL),
    M("istrip",   INP,   ISTRIP,  {},      "",       BOOL \cup PASS8 \cup LITOUT),
    M("iuclc",    INP,   IUCLC,   {},      "",       BOOL \cup INSANE \cup LCASE),
    M("iutf8",    INP,   IUTF8,   {},      "",       BOOL \cup SANE),
    M("ixany",    INP,   IXANY,   {},      "",       BOOL \cup INSANE \cup DECCTLQ),
    M("ixoff",    INP,   IXOFF,   {},      "",       BOOL \cup INSANE),
    M("ixon",     INP,   IXON,    {},      "",       BOOL \cup DEFLT),
    M("parmrk",   INP,   PARMRK,  {},      "",       BOOL),
    M("tandem",   INP,   IXOFF,   {},      "",       BOOL \cup DUP),

    M("bs0",      OUT,   BS0,     BSDLY,   "",       SANE),
    M("bs1",      OUT,   BS1,     BSDLY,   "",       INSANE),
    M("cr0",      OUT,   CR0,     CRDLY,   "",       SANE),
    M("cr1",      OUT,   CR1,     CRDLY,   "",       INSANE),
    M("cr2",      OUT,   CR2,     CRDLY,   "",       INSANE),
    M("cr3",      OUT,   CR3,     CRDLY,   "",       INSANE),
    M("ff0",      OUT,   FF0,     FFDLY,   "",       SANE),
    M("ff1",      OUT,   FF1,     FFDLY,   "",       INSANE),
    M("nl0",      OUT,   NL0,     NLDLY,   "",       SANE),
    M("nl1",      OUT,   NL1,     NLDLY,   "",       INSANE),
    M("ocrnl",    OUT,   OCRNL,   {},      "",       BOOL \cup INSANE),
    M("ofdel",    OUT,   OFDEL,   {},      "",       BOOL \cup INSANE),
    M("ofill",    OUT,   OFILL,   {},      "",       BOOL \cup INSANE),
    M("olcuc",    OUT,   OLCUC,   {},      "",       BOOL \cup INSANE \cup LCASE),
    M("onlcr",    OUT,   ONLCR,   {},      "",       BOOL \cup SANE \cup NL),
    M("onlret",   OUT,   ONLRET,  {},      "",       BOOL \cup INSANE),
    M("onocr",    OUT,   ONOCR,   {},      "",       BOOL \cup INSANE),
    M("opost",    OUT,   OPOST,   {},      "",       BOOL \cup SANE \cup LITOUT \cup COOKED),
    M("tab0",     OUT,   TAB0,    TABDLY,  "",       SANE),
    M("tab1",     OUT,   TAB1,    TABDLY,  "",       INSANE),
    M("tab2",     OUT,   TAB2,    TABDLY,  "",       INSANE),
    M("tab3",     OUT,   TAB3,    TABDLY,  "",       INSANE),
    M("vt0",      OUT,   VT0,     VTDLY,   "",       SANE),
    M("vt1",      OUT,   VT1,     VTDLY,   "",       INSANE),

    M("crterase", LOCALF,ECHOE,   {},      "",       BOOL \cup DUP),
    M("crtkill",  LOCALF,ECHOKE,  {},      "",       BOOL \cup DUP),
    M("ctlecho",  LOCALF,ECHOCTL, {},      "",       BOOL \cup DUP),
    M("echo",     LOCALF,ECHO,    {},      "",       BOOL \cup SANE),
    M("echoctl",  LOCALF,ECHOCTL, {},      "",       BOOL \cup SANE \cup CRT \cup DEC),
    M("echoe",    LOCALF,ECHOE,   {},      "",       BOOL \cup SANE \cup CRT \cup DEC),
    M("echok",    LOCALF,ECHOK,   {},      "",       BOOL \cup SANE),
    M("echoke",   LOCALF,ECHOKE,  {},      "",       BOOL \cup SANE \cup CRT \cup DEC),
    M("echonl",   LOCALF,ECHONL,  {},      "",       BOOL \cup INSANE),
    M("echoprt",  LOCALF,ECHOPRT, {},      "",       BOOL \cup INSANE),
    M("extproc",  LOCALF,EXTPROC, {},      "",       BOOL \cup INSANE),
    M("flusho",   LOCALF,FLUSHO,  {},      "",       BOOL \cup INSANE),
    M("icanon",   LOCALF,ICANON,  {},      "",       BOOL \cup SANE \cup CBREAK \cup COOKED),
    M("iexten",   LOCALF,IEXTEN,  {},      "",       BOOL \cup SANE),
    M("isig",     LOCALF,ISIG,    {},      "",       BOOL \cup SANE \cup COOKED),
    M("noflsh",   LOCALF,NOFLSH,  {},      "",       BOOL \cup INSANE),
    M("prterase", LOCALF,ECHOPRT, {},      "",       BOOL \cup DUP),
    M("tostop",   LOCALF,TOSTOP,  {},      "",       BOOL \cup INSANE),
    M("xcase",    LOCALF,XCASE,   {},      "",       BOOL \cup INSANE \cup LCASE),

    M("cbreak",   COMB,  {},      CBREAK,  "",       BOOL \cup DUP),
    M("cooked",   COMB,  COOKED,  {},      "cooked", BOOL \cup DUP),
    M("crt",      COMB,  CRT,     {},      "",       DUP),
    M("dec",      COMB,  DEC,     DECCTLQ, "dec",    DUP),
    M("decctlq",  COMB,  {},      DECCTLQ, "",       BOOL \cup DUP),
    M("ek",       COMB,  {},      {},      "ek",     DUP),
    M("evenp",    COMB,  {},      {},      "evenp",  BOOL \cup DUP),
    M("LCASE",    COMB,  LCASE,   {},      "",       BOOL \cup DUP),
    M("lcase",    COMB,  LCASE,   {},      "",       BOOL \cup DUP),
    M("litout",   COMB,  {},      LITOUT,  "pass8",  BOOL \cup DUP),
    M("nl",       COMB,  {},      NL,      "nl",     BOOL \cup DUP),
    M("oddp",     COMB,  {},      {},      "oddp",   BOOL \cup DUP),
    M("parity",   COMB,  {},      {},      "evenp",  BOOL \cup DUP),
    M("pass8",    COMB,  {},      PASS8,   "pass8",  BOOL \cup DUP),
    M("raw",      COMB,  {},      COOKED,  "raw",    BOOL \cup DUP),
    M("sane",     COMB,  SANE,    INSANE,  "sane",   DUP),
    M("tabs",     COMB,  {},      {},      "tabs",   BOOL \cup DUP),

    M("size",     SPEC,  {},      {},      "size",   DUP),
    M("speed",    SPEC,  {},      {},      "speed",  DUP),
    M("drain",    SPEC,  {},      {},      "drain",  BOOL \cup DUP)
>>

K(op, index, sanevalue) == [op |-> op, index |-> index, sanevalue |-> sanevalue]

keys == <<
    K("discard", VDISCARD, CDISCARD),
    K("eof",     VEOF,     CEOF),
    K("eol",     VEOL,     CEOL),
    K("eol2",    VEOL2,    POSIX_VDISABLE),
    K("erase",   VERASE,   CERASE),
    K("intr",    VINTR,    CINTR),
    K("kill",    VKILL,    CKILL),
    K("lnext",   VLNEXT,   CLNEXT),
    K("quit",    VQUIT,    CQUIT),
    K("rprnt",   VREPRINT, CRPRNT),
    K("start",   VSTART,   CSTART),
    K("stop",    VSTOP,    CSTOP),
    K("susp",    VSUSP,    CSUSP),
    K("swtch",   VSWTC,    POSIX_VDISABLE),
    K("werase",  VWERASE,  CWERASE)
>>

ints == <<
    [op |-> "cols",    fun |-> "cols"],
    [op |-> "columns", fun |-> "cols"],
    [op |-> "min",     fun |-> "min"],
    [op |-> "rows",    fun |-> "rows"],
    [op |-> "time",    fun |-> "stime"],
    [op |-> "ispeed",  fun |-> "ispeed"],
    [op |-> "ospeed",  fun |-> "ospeed"]
>>

S(str, sp) == [str |-> str, speed |-> sp]

speeds == <<
    S("0", 0), S("50", 1), S("75", 2), S("110", 3), S("134", 4),
    S("150", 5), S("200", 6), S("300", 7), S("600", 8), S("1200", 9),
    S("1800", 10), S("2400", 11), S("4800", 12), S("9600", 13),
    S("19200", 14), S("38400", 15), S("57600", 4097), S("115200", 4098),
    S("230400", 4099), S("460800", 4100), S("500000", 4101),
    S("576000", 4102), S("921600", 4103), S("1000000", 4104),
    S("1152000", 4105), S("1500000", 4106), S("2000000", 4107),
    S("2500000", 4108), S("3000000", 4109), S("3500000", 4110),
    S("4000000", 4111),
    S("134.5", 4), S("exta", 14), S("extb", 15)
>>

L(str, value) == [str |-> str, value |-> value]

lines == <<
    L("tty", 0), L("slip", 1), L("mouse", 2), L("ppp", 3), L("strip", 4),
    L("ax25", 5), L("x25", 6), L("6pack", 7), L("masc", 8), L("r3964", 9),
    L("profibus", 10), L("irda", 11), L("smsblock", 12), L("hdlc", 13),
    L("syncppp", 14), L("hci", 15)
>>

\* the first entry of a catalog whose field f is v; 0 when there is none
\* (the loops  while (op->op && strcmp(arg, op->op)) op++ )
Find(table, f, v) ==
    IF \E i \in 1..Len(table) : table[i][f] = v
    THEN CHOOSE i \in 1..Len(table) :
            /\ table[i][f] = v
            /\ \A j \in 1..(i - 1) : table[j][f] # v
    ELSE 0

----------------------------------------------------------------------------
(* struct termios and its bytes *)

Byte == 0..255

ZeroTermios ==
    [c_iflag |-> {}, c_oflag |-> {}, c_cflag |-> {}, c_lflag |-> {},
     c_line |-> 0, c_cc |-> [i \in 0..(NCCS - 1) |-> 0],
     pad |-> <<0, 0, 0>>, c_ispeed |-> 0, c_ospeed |-> 0]

\* byte k (0..3) of a flag word, least significant first
WordByte(w, k) == SumPow2({i - 8 * k : i \in w \cap ((8 * k)..(8 * k + 7))})

IntByte(n, k) == (n \div Pow2(8 * k)) % 256

\* the object representation of a struct termios: what memcmp compares,
\* what -g prints and what a "=" operand overwrites
Bytes(m) ==
    [i \in 1..TermiosSize |->
        IF i <= 4 THEN WordByte(m.c_iflag, i - 1)
        ELSE IF i <= 8 THEN WordByte(m.c_oflag, i - 5)
        ELSE IF i <= 12 THEN WordByte(m.c_cflag, i - 9)
        ELSE IF i <= 16 THEN WordByte(m.c_lflag, i - 13)
        ELSE IF i = 17 THEN m.c_line
        ELSE IF i <= 17 + NCCS THEN m.c_cc[i - 18]
        ELSE IF i <= 20 + NCCS THEN m.pad[i - 17 - NCCS]
        ELSE IF i <= 24 + NCCS THEN IntByte(m.c_ispeed, i - 21 - NCCS)
        ELSE IntByte(m.c_ospeed, i - 25 - NCCS)]

ByteWord(b, at) ==
    UNION {{8 * k + i : i \in BitsOf(b[at + k], 8)} : k \in 0..3}

\* the speeds of the catalog all fit in the low two bytes; the high bytes
\* are kept so that no byte of the representation is lost
ByteInt(b, at) ==
    b[at] + 256 * b[at + 1] + 65536 * b[at + 2]
        + 16777216 * (b[at + 3] - (IF b[at + 3] >= 128 THEN 256 ELSE 0))

FromBytes(b) ==
    [c_iflag |-> ByteWord(b, 1), c_oflag |-> ByteWord(b, 5),
     c_cflag |-> ByteWord(b, 9), c_lflag |-> ByteWord(b, 13),
     c_line |-> b[17], c_cc |-> [i \in 0..(NCCS - 1) |-> b[18 + i]],
     pad |-> <<b[18 + NCCS], b[19 + NCCS], b[20 + NCCS]>>,
     c_ispeed |-> ByteInt(b, 21 + NCCS), c_ospeed |-> ByteInt(b, 25 + NCCS)]

\* memcmp(&a, &b, sizeof(a)) != 0
memcmp(a, b) == Bytes(a) # Bytes(b)

----------------------------------------------------------------------------
(* State Codec *)

HexDigits == "0123456789abcdef"

\* printf("%02x", byte)
Hex02x(b) == CharAt(HexDigits, (b \div 16) + 1) \o CharAt(HexDigits, (b % 16) + 1)

\* the loop  for (n = sizeof(mode); n--; buf++) printf("%02x", *buf)  over
\* the bytes lo..hi (halved, to keep the evaluation shallow)
RECURSIVE EncodeRange(_, _, _)
EncodeRange(b, lo, hi) ==
    IF lo > hi THEN ""
    ELSE IF lo = hi THEN Hex02x(b[lo])
    ELSE LET mid == (lo + hi) \div 2
         IN  EncodeRange(b, lo, mid) \o EncodeRange(b, mid + 1, hi)

\* the text -g prints after "=": every byte of the state, in order
encodehex(m) == EncodeRange(Bytes(m), 1, TermiosSize)

isxnumber(str) ==
    /\ Len(str) > 0
    /\ \A i \in 1..Len(str) : isxdigit(CharAt(str, i))

\* the digit value without the correction for letters
HexNibbleDigitsOnly(c) == Ord(c) % 16

\* (c & 15) + 9 * !isdigit(c)
HexNibble(c) == (Ord(c) % 16) + (IF isdigit(c) THEN 0 ELSE 9)

\* (char)((hi << 4) | lo), as an unsigned byte
ShiftOr(hi, lo) == SumPow2({i + 4 : i \in BitsOf(hi, 8)} \cup BitsOf(lo, 8)) % 256

\* the bytes decodehex stores, from a source of even length
decodehex(src) ==
    [i \in 1..(Len(src) \div 2) |->
        ShiftOr(HexNibble(CharAt(src, 2 * i - 1)), HexNibble(CharAt(src, 2 * i)))]

----------------------------------------------------------------------------
(* Side-effect routines of the catalog: (unset, m) gives the new m *)

\* raw clearing only the bits that -raw sets
rawClearsCookedBits(unset, m) ==
    IF ~unset
    THEN [m EXCEPT !.c_iflag = @ \ (BRKINT \cup IGNPAR \cup ISTRIP \cup ICRNL \cup IXON),
                   !.c_lflag = @ \ XCASE,
                   !.c_cc = [@ EXCEPT ![VMIN] = 1, ![VTIME] = 0]]
    ELSE [m EXCEPT !.c_iflag = @ \cup BRKINT \cup IGNPAR \cup ISTRIP
                                   \cup ICRNL \cup IXON]

raw(unset, m) ==
    IF ~unset
    THEN [m EXCEPT !.c_iflag = {},
                   !.c_lflag = @ \ XCASE,
                   !.c_cc = [@ EXCEPT ![VMIN] = 1, ![VTIME] = 0]]
    ELSE [m EXCEPT !.c_iflag = @ \cup BRKINT \cup IGNPAR \cup ISTRIP
                                   \cup ICRNL \cup IXON]

evenp(unset, m) ==
    [m EXCEPT !.c_oflag =
        ((@ \ CSIZE) \ (IF unset THEN PARENB ELSE PARODD))
            \cup (IF unset THEN CS8 ELSE CS7 \cup PARENB)]

dec(unset, m) ==
    [m EXCEPT !.c_cc = [@ EXCEPT ![VINTR] = CINTR, ![VKILL] = CKILL,
                                 ![VERASE] = CERASE]]

ek(unset, m) ==
    [m EXCEPT !.c_cc = [@ EXCEPT ![VKILL] = CKILL, ![VERASE] = CERASE]]

nl(unset, m) ==
    IF unset
    THEN [m EXCEPT !.c_iflag = @ \ (INLCR \cup IGNCR),
                   !.c_oflag = @ \ (OCRNL \cup ONLRET)]
    ELSE m

oddp(unset, m) ==
    [m EXCEPT !.c_oflag =
        ((@ \ CSIZE) \ (IF unset THEN PARENB ELSE {}))
            \cup (IF unset THEN CS8 ELSE CS7 \cup PARODD \cup PARENB)]

cooked(unset, m) == raw(~unset, m)

pass8(unset, m) ==
    [m EXCEPT !.c_cflag = (@ \ CSIZE) \cup (IF unset THEN CS7 ELSE CS8)]

tabs(unset, m) ==
    [m EXCEPT !.c_oflag = (@ \ TABDLY) \cup (IF unset THEN TAB3 ELSE TAB0)]

RECURSIVE SaneKeys(_, _)
SaneKeys(cc, i) ==
    IF i > Len(keys) THEN cc
    ELSE SaneKeys([cc EXCEPT ![keys[i].index] = keys[i].sanevalue], i + 1)

\* the loop over keys[] starting one entry late
saneFromSecondKey(unset, m) ==
    [m EXCEPT !.c_cc = [SaneKeys(@, 2) EXCEPT ![VMIN] = 1, ![VTIME] = 0]]

sane(unset, m) ==
    [m EXCEPT !.c_cc = [SaneKeys(@, 1) EXCEPT ![VMIN] = 1, ![VTIME] = 0]]

\* op->fun(unset, mode): st carries mode and the three globals
CallFun(fun, unset, st) ==
    CASE fun = "raw"    -> [st EXCEPT !.mode = raw(unset, @)]
      [] fun = "evenp"  -> [st EXCEPT !.mode = evenp(unset, @)]
      [] fun = "dec"    -> [st EXCEPT !.mode = dec(unset, @)]
      [] fun = "ek"     -> [st EXCEPT !.mode = ek(unset, @)]
      [] fun = "nl"     -> [st EXCEPT !.mode = nl(unset, @)]
      [] fun = "oddp"   -> [st EXCEPT !.mode = oddp(unset, @)]
      [] fun = "cooked" -> [st EXCEPT !.mode = cooked(unset, @)]
      [] fun = "pass8"  -> [st EXCEPT !.mode = pass8(unset, @)]
      [] fun = "tabs"   -> [st EXCEPT !.mode = tabs(unset, @)]
      [] fun = "sane"   -> [st EXCEPT !.mode = sane(unset, @)]
      [] fun = "drain"  -> [st EXCEPT !.drain_requested = ~unset]
      [] fun = "size"   -> [st EXCEPT !.output_size_requested = TRUE]
      [] fun = "speed"  -> [st EXCEPT !.output_speed_requested = TRUE]
      [] OTHER          -> st

----------------------------------------------------------------------------
(* Mode operands *)

\* the flag word an entry addresses: its field name, "" for SPEC
BitsField(type) ==
    CASE type = CTRL   -> "c_cflag"
      [] type = INP    -> "c_iflag"
      [] type = OUT    -> "c_oflag"
      [] type = LOCALF -> "c_lflag"
      [] OTHER         -> ""

\* the set bits put in before the clear bits are taken out
ApplyBitsClearLast(unset, op, bits) ==
    IF ~unset THEN (bits \cup op.set) \ op.clear
    ELSE (bits \ op.set) \ op.clear

\* the unset branch left out
ApplyBitsSetOnly(unset, op, bits) ==
    IF ~unset THEN (bits \ op.clear) \cup op.set
    ELSE bits \ op.clear

\* *bitsp &= ~op->clear; then |= op->set or &= ~op->set
ApplyBits(unset, op, bits) ==
    IF ~unset THEN (bits \ op.clear) \cup op.set
    ELSE (bits \ op.clear) \ op.set

setoperand_mode(unset, op, st) ==
    LET f == BitsField(op.type)
        st1 == IF f = "" THEN st
               ELSE [st EXCEPT !.mode[f] = ApplyBits(unset, op, @)]
    IN  IF op.fun # "" THEN CallFun(op.fun, unset, st1) ELSE st1

\* the turn with the combination's own polarity for both tag words
ExpandOneSamePolarity(unset, flags_set, flags_unset, st, op) ==
    LET s1 == IF op.type # COMB /\ (op.flags \cap flags_unset) # {}
              THEN setoperand_mode(unset, op, st) ELSE st
    IN  IF op.type # COMB /\ (op.flags \cap flags_set) # {}
        THEN setoperand_mode(unset, op, s1) ELSE s1

\* one turn of the loop over the catalog of a combination with tag words
\* flags_set, flags_unset
ExpandOne(unset, flags_set, flags_unset, st, op) ==
    LET s1 == IF op.type # COMB /\ (op.flags \cap flags_unset) # {}
              THEN setoperand_mode(~unset, op, st) ELSE st
    IN  IF op.type # COMB /\ (op.flags \cap flags_set) # {}
        THEN setoperand_mode(unset, op, s1) ELSE s1

\* the turns for the entries lo..hi, in catalog order (halved, to keep the
\* evaluation shallow)
RECURSIVE Expand(_, _, _, _, _, _)
Expand(unset, flags_set, flags_unset, st, lo, hi) ==
    IF lo > hi THEN st
    ELSE IF lo = hi THEN ExpandOne(unset, flags_set, flags_unset, st, modes[lo])
    ELSE LET mid == (lo + hi) \div 2
             left == Expand(unset, flags_set, flags_unset, st, lo, mid)
         IN  IF Evaluated(left)
             THEN Expand(unset, flags_set, flags_unset, left, mid + 1, hi)
             ELSE st

\* the look-up without the test of the BOOL tag
parseoperand_modeAnyNegated(arg, st) ==
    LET unset == Len(arg) > 0 /\ CharAt(arg, 1) = "-"
        name == IF unset THEN Tail(arg) ELSE arg
        k == Find(modes, "op", name)
    IN  IF k = 0 THEN [ret |-> -1, st |-> st]
        ELSE IF modes[k].type # COMB
        THEN [ret |-> 0, st |-> setoperand_mode(unset, modes[k], st)]
        ELSE LET op == modes[k]
                 s1 == IF op.set # {} \/ op.clear # {}
                       THEN Expand(unset, op.set, op.clear, st, 1, Len(modes)) ELSE st
                 s2 == IF op.fun # "" THEN CallFun(op.fun, unset, s1) ELSE s1
             IN  [ret |-> 0, st |-> s2]

\* gives [ret |-> 0 or -1, st |-> the state after]
parseoperand_mode(arg, st) ==
    LET unset == Len(arg) > 0 /\ CharAt(arg, 1) = "-"
        name == IF unset THEN Tail(arg) ELSE arg
        k == Find(modes, "op", name)
    IN  IF k = 0 THEN [ret |-> -1, st |-> st]
        ELSE IF unset /\ (modes[k].flags \cap BOOL) = {}
        THEN [ret |-> -1, st |-> st]
        ELSE IF modes[k].type # COMB
        THEN [ret |-> 0, st |-> setoperand_mode(unset, modes[k], st)]
        ELSE LET op == modes[k]
                 s1 == IF op.set # {} \/ op.clear # {}
                       THEN Expand(unset, op.set, op.clear, st, 1, Len(modes)) ELSE st
                 s2 == IF op.fun # "" THEN CallFun(op.fun, unset, s1) ELSE s1
             IN  [ret |-> 0, st |-> s2]

----------------------------------------------------------------------------
(* Numbers.  The numeric tokens of the model are short: strtoll never    *)
(* meets ERANGE.                                                          *)

\* the value of c as a digit: 0..35, or 99 when it is none
DigitVal(c) ==
    LET n == Ord(c)
    IN  IF n >= 48 /\ n <= 57 THEN n - 48
        ELSE IF n >= 97 /\ n <= 122 THEN n - 87
        ELSE IF n >= 65 /\ n <= 90 THEN n - 55
        ELSE 99

IsDigitAt(s, i, base) == i <= Len(s) /\ DigitVal(CharAt(s, i)) < base

RECURSIVE SkipSpace(_, _)
SkipSpace(s, i) ==
    IF i <= Len(s) /\ CharAt(s, i) = " " THEN SkipSpace(s, i + 1) ELSE i

\* the digits of s from i on in the base: [val, endp] with endp the index
\* after the last digit
RECURSIVE Digits(_, _, _, _)
Digits(s, i, base, acc) ==
    IF IsDigitAt(s, i, base)
    THEN Digits(s, i + 1, base, acc * base + DigitVal(CharAt(s, i)))
    ELSE [val |-> acc, endp |-> i]

\* strtoll(numstr, &ep, base) for base 0 or 10: [val, endp], endp = 1 when
\* no conversion was made (ep == numstr)
strtoll(s, base) ==
    LET i0 == SkipSpace(s, 1)
        signed == i0 <= Len(s) /\ CharAt(s, i0) \in {"-", "+"}
        neg == signed /\ CharAt(s, i0) = "-"
        i1 == IF signed THEN i0 + 1 ELSE i0
        hex == /\ base = 0
               /\ i1 + 1 <= Len(s)
               /\ CharAt(s, i1) = "0"
               /\ CharAt(s, i1 + 1) \in {"x", "X"}
               /\ IsDigitAt(s, i1 + 2, 16)
        b == IF base # 0 THEN base
             ELSE IF hex THEN 16
             ELSE IF i1 <= Len(s) /\ CharAt(s, i1) = "0" THEN 8
             ELSE 10
        i2 == IF hex THEN i1 + 2 ELSE i1
        d == Digits(s, i2, b, 0)
    IN  IF d.endp = i2 THEN [val |-> 0, endp |-> 1]
        ELSE [val |-> IF neg THEN 0 - d.val ELSE d.val, endp |-> d.endp]

\* [val, err]: err is the diagnostic of the eprintf that ends the run,
\* "" when the number is accepted
NumCheck(numstr, r, minval, maxval) ==
    IF r.endp = 1 \/ r.endp <= Len(numstr)
    THEN [val |-> r.val, err |-> "strtoll " \o numstr \o ": invalid"]
    ELSE IF r.val < minval
    THEN [val |-> r.val, err |-> "strtoll " \o numstr \o ": too small"]
    ELSE IF r.val > maxval
    THEN [val |-> r.val, err |-> "strtoll " \o numstr \o ": too large"]
    ELSE [val |-> r.val, err |-> ""]

estrtonum_anyradix(numstr, minval, maxval) ==
    NumCheck(numstr, strtoll(numstr, 0), minval, maxval)

\* util.h: the decimal conversion, fatal unless minval <= n <= maxval
estrtonum(numstr, minval, maxval) ==
    NumCheck(numstr, strtoll(numstr, 10), minval, maxval)

----------------------------------------------------------------------------
(* Key, integer-valued, line and speed operands.  st carries mode, the    *)
(* three globals, the device's window geometry and the device-call log.   *)
(* Each gives [ret, err, st]: err # "" is the diagnostic of a fatal       *)
(* eprintf.                                                               *)

Res(ret, err, st) == [ret |-> ret, err |-> err, st |-> st]

MissingArgument(arg0) == "missing argument for operand: " \o arg0

\* (cc_t)c & ~0x60
ControlForm(c) == SumPow2(BitsOf(Ord(c), 8) \ {5, 6})

\* the decoding with the test of the caret made first
KeyValueCaretFirst(arg1) ==
    IF Len(arg1) >= 2 /\ CharAt(arg1, 1) = "^"
    THEN [val |-> ControlForm(CharAt(arg1, 2)), err |-> ""]
    ELSE IF arg1 = "undef" THEN [val |-> POSIX_VDISABLE, err |-> ""]
    ELSE IF Len(arg1) = 0 THEN [val |-> 0, err |-> ""]
    ELSE IF Len(arg1) = 1 THEN [val |-> Ord(arg1), err |-> ""]
    ELSE estrtonum_anyradix(arg1, 0, CC_MAX)

\* the value a key operand's argument denotes: [val, err]
KeyValue(arg1) ==
    IF arg1 = "^-" \/ arg1 = "undef" THEN [val |-> POSIX_VDISABLE, err |-> ""]
    ELSE IF arg1 = "^?" THEN [val |-> 127, err |-> ""]
    ELSE IF Len(arg1) = 0 THEN [val |-> 0, err |-> ""]
    ELSE IF Len(arg1) = 1 THEN [val |-> Ord(arg1), err |-> ""]
    ELSE IF CharAt(arg1, 1) = "^"
    THEN [val |-> ControlForm(CharAt(arg1, 2)), err |-> ""]
    ELSE estrtonum_anyradix(arg1, 0, CC_MAX)

\* has1 is  arg1 != NULL
SetKey(k, v, st) ==
    IF v.err # "" THEN Res(0, v.err, st)
    ELSE Res(0, "", [st EXCEPT !.mode.c_cc[keys[k].index] = v.val])

KeyOperand(k, arg0, has1, arg1, st) ==
    IF k = 0 THEN Res(-1, "", st)
    ELSE IF ~has1 THEN Res(0, MissingArgument(arg0), st)
    ELSE SetKey(k, KeyValue(arg1), st)

parseoperand_key(arg0, has1, arg1, st) ==
    KeyOperand(Find(keys, "op", arg0), arg0, has1, arg1, st)

\* y, x < 0 leave the dimension as the device has it
setwinsize(y, x, st) ==
    LET ws == [ws_row |-> IF y >= 0 THEN y ELSE st.winsize.ws_row,
               ws_col |-> IF x >= 0 THEN x ELSE st.winsize.ws_col]
    IN  [st EXCEPT !.winsize = ws,
                   !.calls = Append(@, [call |-> "TIOCSWINSZ", arg |-> ws])]

parsespeed(arg) == Find(speeds, "str", arg)

InvalidSpeed(arg) == "invalid speed parameter: " \o arg

cfsetispeed(m, sp) == [m EXCEPT !.c_ispeed = sp]
cfsetospeed(m, sp) == [m EXCEPT !.c_ospeed = sp]
cfgetispeed(m) == m.c_ispeed
cfgetospeed(m) == m.c_ospeed

\* the functions of the integer-valued operands, each [err, st]; n is the
\* converted argument [val, err]
Fatal(e, st) == [err |-> e, st |-> st]

Done(st) == [err |-> "", st |-> st]

SetCols(n, st) ==
    IF n.err # "" THEN Fatal(n.err, st) ELSE Done(setwinsize(-1, n.val, st))

cols(arg, st) == SetCols(estrtonum(arg, 0, USHRT_MAX), st)

SetRows(n, st) ==
    IF n.err # "" THEN Fatal(n.err, st) ELSE Done(setwinsize(n.val, -1, st))

rows(arg, st) == SetRows(estrtonum(arg, 0, USHRT_MAX), st)

SetCc(index, n, st) ==
    IF n.err # "" THEN Fatal(n.err, st)
    ELSE Done([st EXCEPT !.mode.c_cc[index] = n.val])

\* the limit of the geometry operands taken for min
minWithShortLimit(arg, st) == SetCc(VMIN, estrtonum(arg, 0, USHRT_MAX), st)

min(arg, st) == SetCc(VMIN, estrtonum(arg, 0, CC_MAX), st)

stime(arg, st) == SetCc(VTIME, estrtonum(arg, 0, CC_MAX), st)

\* eparsespeed: the index in speeds[], fatal when there is none
SetISpeed(k, arg, st) ==
    IF k = 0 THEN Fatal(InvalidSpeed(arg), st)
    ELSE Done([st EXCEPT !.mode = cfsetispeed(@, speeds[k].speed)])

ispeed(arg, st) == SetISpeed(parsespeed(arg), arg, st)

SetOSpeed(k, arg, st) ==
    IF k = 0 THEN Fatal(InvalidSpeed(arg), st)
    ELSE Done([st EXCEPT !.mode = cfsetospeed(@, speeds[k].speed)])

ospeed(arg, st) == SetOSpeed(parsespeed(arg), arg, st)

\* op->fun(arg1, mode) of an integer-valued operand: [err, st]
CallInt(fun, arg, st) ==
    CASE fun = "cols" -> cols(arg, st)
      [] fun = "rows" -> rows(arg, st)
      [] fun = "min" -> min(arg, st)
      [] fun = "stime" -> stime(arg, st)
      [] fun = "ispeed" -> ispeed(arg, st)
      [] fun = "ospeed" -> ospeed(arg, st)

IntResult(r) == Res(0, r.err, r.st)

IntOperand(k, arg0, has1, arg1, st) ==
    IF k = 0 THEN Res(-1, "", st)
    ELSE IF ~has1 THEN Res(0, MissingArgument(arg0), st)
    ELSE IntResult(CallInt(ints[k].fun, arg1, st))

parseoperand_int(arg0, has1, arg1, st) ==
    IntOperand(Find(ints, "op", arg0), arg0, has1, arg1, st)

\* line(arg, m): [err, st]
SetLine(k, n, st) ==
    IF k # 0 THEN Done([st EXCEPT !.mode.c_line = lines[k].value])
    ELSE IF n.err # "" THEN Fatal(n.err, st)
    ELSE Done([st EXCEPT !.mode.c_line = n.val])

line(arg, st) == SetLine(Find(lines, "str", arg), estrtonum(arg, 0, 255), st)

baudtostr(baud) ==
    LET k == Find(speeds, "speed", baud)
    IN  IF k # 0 THEN speeds[k].str ELSE "0"

linetostr(value) ==
    LET k == Find(lines, "value", value)
    IN  IF k # 0 THEN lines[k].str ELSE ""

----------------------------------------------------------------------------
(* Display Formatter.  A line buffer lb = [lines, cur, pos]: the lines    *)
(* already ended by a newline, the text of the line being written, and    *)
(* printtoken's static pos.                                               *)

SIZE_MAX == 2147483647  \* stands for the largest size_t: no line is as long

EmptyBuf == [lines |-> <<>>, cur |-> "", pos |-> 0]

\* the static width, set on the first call from the columns of stdout
TokenWidth(ws_col) == IF ws_col > 40 THEN ws_col ELSE SIZE_MAX

\* printf("\n")
NewLine(lb) == [lb EXCEPT !.lines = Append(@, lb.cur), !.cur = ""]

\* the forced break without the test of pos
printtokenBreakAlways(lb, width, tok) ==
    IF tok = "\n"
    THEN [NewLine(lb) EXCEPT !.pos = 0]
    ELSE LET len == Len(tok)
             l1 == IF lb.pos + (IF lb.pos # 0 THEN 1 ELSE 0) + len > width
                   THEN [NewLine(lb) EXCEPT !.pos = 0]
                   ELSE IF lb.pos # 0
                   THEN [lb EXCEPT !.cur = @ \o " ", !.pos = @ + 1]
                   ELSE lb
         IN  [l1 EXCEPT !.cur = @ \o tok, !.pos = @ + len]

\* printtoken(fmt, ...) with the formatted text tok; "\n" is the forced break
printtoken(lb, width, tok) ==
    IF tok = "\n"
    THEN IF lb.pos # 0 THEN [NewLine(lb) EXCEPT !.pos = 0]
         ELSE [lb EXCEPT !.pos = 0]
    ELSE LET len == Len(tok)
             l1 == IF lb.pos + (IF lb.pos # 0 THEN 1 ELSE 0) + len > width
                   THEN [NewLine(lb) EXCEPT !.pos = 0]
                   ELSE IF lb.pos # 0
                   THEN [lb EXCEPT !.cur = @ \o " ", !.pos = @ + 1]
                   ELSE lb
         IN  [l1 EXCEPT !.cur = @ \o tok, !.pos = @ + len]

\* the calls printtoken(toks[lo]) .. printtoken(toks[hi]), in order
RECURSIVE PrintAll(_, _, _, _, _)
PrintAll(lb, width, toks, lo, hi) ==
    IF lo > hi THEN lb
    ELSE IF lo = hi THEN printtoken(lb, width, toks[lo])
    ELSE LET mid == (lo + hi) \div 2
             left == PrintAll(lb, width, toks, lo, mid)
         IN  IF Evaluated(left) THEN PrintAll(left, width, toks, mid + 1, hi)
             ELSE lb

\* keytostr; the char of code 96 and 224 has no literal here and shows as "?"
keytostr(key) ==
    IF key = POSIX_VDISABLE THEN "undef"
    ELSE IF key < 32 THEN "^" \o Chr(key + 64)
    ELSE IF key < 127 THEN Chr(key)
    ELSE IF key = 127 THEN "^?"
    ELSE IF key < 128 + 32 THEN "M-^" \o Chr(key - 128 + 64)
    ELSE IF key = 128 + 127 THEN "M-^?"
    ELSE "M-" \o Chr(key - 128)

\* the default taken from the DEF tag alone
isdefaultByDefTag(flags) == (flags \cap DEFLT) # {}

isdefault(flags) ==
    IF (flags \cap (SANE \cup INSANE)) # {}
    THEN (flags \cap SANE) # {} \/ (flags \cap INSANE) = {}
    ELSE (flags \cap DEFLT) # {}

\* the tokens of the speed and geometry group
SpeedTokens(m, all, ws) ==
    LET in == cfgetispeed(m)
        outs == cfgetospeed(m)
    IN  (IF in = 0 \/ in = outs
         THEN IF all \/ outs # B38400
              THEN <<"speed " \o baudtostr(outs) \o " baud;">> ELSE <<>>
         ELSE <<"ispeed " \o baudtostr(in) \o " baud;",
                "ospeed " \o baudtostr(outs) \o " baud;">>)
        \o (IF all THEN <<"rows " \o ToString(ws.ws_row) \o ";",
                          "columns " \o ToString(ws.ws_col) \o ";">>
            ELSE <<>>)

\* the tokens of the line, min and time group
LineTokens(m, all) ==
    (IF all \/ m.c_line # 0
     THEN IF linetostr(m.c_line) # ""
          THEN <<"line = " \o linetostr(m.c_line) \o ";">>
          ELSE <<"line = " \o ToString(m.c_line) \o ";">>
     ELSE <<>>)
    \o (IF all \/ (m.c_cc[VMIN] # 1 /\ (m.c_lflag \cap ICANON) = {})
        THEN <<"min = " \o ToString(m.c_cc[VMIN]) \o ";">> ELSE <<>>)
    \o (IF all \/ (m.c_cc[VTIME] # 0 /\ (m.c_lflag \cap ICANON) = {})
        THEN <<"time = " \o ToString(m.c_cc[VTIME]) \o ";">> ELSE <<>>)

\* the tokens of the control-character group, from entry i on
RECURSIVE KeyTokens(_, _, _)
KeyTokens(m, all, i) ==
    IF i > Len(keys) THEN <<>>
    ELSE (IF all \/ m.c_cc[keys[i].index] # keys[i].sanevalue
          THEN <<keys[i].op \o " = " \o keytostr(m.c_cc[keys[i].index]) \o ";">>
          ELSE <<>>)
         \o KeyTokens(m, all, i + 1)

\* the token of an entry without the test of the DUP tag
ModeTokenOfAlias(m, all, mod) ==
    LET f == IF mod.type = SPEC THEN "" ELSE BitsField(mod.type)
        mask == IF mod.clear # {} THEN mod.clear ELSE mod.set
    IN  IF f = "" THEN <<>>
        ELSE IF (m[f] \cap mask) = mod.set
        THEN IF all \/ ~isdefault(mod.flags) THEN <<mod.op>> ELSE <<>>
        ELSE IF (mod.flags \cap BOOL) # {}
        THEN IF all \/ isdefault(mod.flags) THEN <<"-" \o mod.op>> ELSE <<>>
        ELSE <<>>

\* the token of one catalog entry, <<>> when it prints none
ModeToken(m, all, mod) ==
    LET f == IF mod.type = SPEC THEN "" ELSE BitsField(mod.type)
        mask == IF mod.clear # {} THEN mod.clear ELSE mod.set
    IN  IF f = "" \/ (mod.flags \cap DUP) # {} THEN <<>>
        ELSE IF (m[f] \cap mask) = mod.set
        THEN IF all \/ ~isdefault(mod.flags) THEN <<mod.op>> ELSE <<>>
        ELSE IF (mod.flags \cap BOOL) # {}
        THEN IF all \/ isdefault(mod.flags) THEN <<"-" \o mod.op>> ELSE <<>>
        ELSE <<>>

\* the tokens of the entries lo..hi of the catalog
RECURSIVE ModeTokens(_, _, _, _)
ModeTokens(m, all, lo, hi) ==
    IF lo > hi THEN <<>>
    ELSE IF lo = hi THEN ModeToken(m, all, modes[lo])
    ELSE LET mid == (lo + hi) \div 2
         IN  ModeTokens(m, all, lo, mid) \o ModeTokens(m, all, mid + 1, hi)

\* the calls of printtoken displaysettings makes, in order
DisplayTokens(m, all, ws) ==
    SpeedTokens(m, all, ws) \o <<"\n">>
    \o LineTokens(m, all) \o <<"\n">>
    \o KeyTokens(m, all, 1) \o <<"\n">>
    \o ModeTokens(m, all, 1, Len(modes)) \o <<"\n">>

\* the lines displaysettings writes when stdout reports ws_col columns
displaysettings(m, all, ws, ws_col) ==
    LET toks == DisplayTokens(m, all, ws)
    IN  PrintAll(EmptyBuf, TokenWidth(ws_col), toks, 1, Len(toks)).lines

----------------------------------------------------------------------------
(* main: the operand loop *)

\* what the operand functions read and change
St ==
    [mode |-> mode, drain_requested |-> drain_requested,
     output_size_requested |-> output_size_requested,
     output_speed_requested |-> output_speed_requested,
     winsize |-> winsize, calls |-> calls]

InvalidOperand(arg) == "invalid operand: " \o arg

\* the length test alone
HexOperandOkByLength(p) == Len(p) = TermiosSize * 2

\* strlen(p) != sizeof(mode) * 2 || !isxnumber(p)  is false
HexOperandOk(p) == Len(p) = TermiosSize * 2 /\ isxnumber(p)

\* the second call left out
SetInputSpeedOnly(m, sp) == cfsetispeed(m, sp)

\* the bare speed token: both speeds are set
SetBothSpeeds(m, sp) == cfsetospeed(cfsetispeed(m, sp), sp)

\* one turn of the loop on arg = *argv with arg1 = argv[1] (has1: it is not
\* NULL): [kind, err, adv, st] with adv the arguments consumed and err the
\* diagnostic of the eprintf that ends the run, "" if none
Turned(kind, e, adv, st) == [kind |-> kind, err |-> e, adv |-> adv, st |-> st]

\* the literal operand "=<hex>", p the text after the "="
Literal(arg, p, st) ==
    IF HexOperandOk(p)
    THEN Turned("hex", "", 1, [st EXCEPT !.mode = FromBytes(decodehex(p))])
    ELSE Turned("invalid", InvalidOperand(arg), 1, st)

LineOperand(arg, has1, ln, st) ==
    IF ~has1 THEN Turned("line", MissingArgument(arg), 2, st)
    ELSE Turned("line", ln.err, 2, ln.st)

SpeedOperand(arg, sp, st) ==
    IF sp # 0
    THEN Turned("speed", "", 1, [st EXCEPT !.mode = SetBothSpeeds(@, speeds[sp].speed)])
    ELSE Turned("invalid", InvalidOperand(arg), 1, st)

\* the chain with argv++ left out after a key operand
ChainKeyValueLeft(arg, has1, arg1, st, md, ky, nt) ==
    IF md.ret = 0 THEN Turned("mode", "", 1, md.st)
    ELSE IF ky.ret = 0 THEN Turned("key", ky.err, 1, ky.st)
    ELSE IF nt.ret = 0 THEN Turned("int", nt.err, 2, nt.st)
    ELSE IF arg = "line" THEN LineOperand(arg, has1, line(arg1, st), st)
    ELSE SpeedOperand(arg, parsespeed(arg), st)

\* the chain of the loop's tests, md, ky and nt the results of the three
\* catalog look-ups
Chain(arg, has1, arg1, st, md, ky, nt) ==
    IF md.ret = 0 THEN Turned("mode", "", 1, md.st)
    ELSE IF ky.ret = 0 THEN Turned("key", ky.err, 2, ky.st)
    ELSE IF nt.ret = 0 THEN Turned("int", nt.err, 2, nt.st)
    ELSE IF arg = "line" THEN LineOperand(arg, has1, line(arg1, st), st)
    ELSE SpeedOperand(arg, parsespeed(arg), st)

Resolve(arg, has1, arg1, st) ==
    IF Len(arg) > 0 /\ CharAt(arg, 1) = "="
    THEN Literal(arg, Tail(arg), st)
    ELSE Chain(arg, has1, arg1, st, parseoperand_mode(arg, st),
               parseoperand_key(arg, has1, arg1, st),
               parseoperand_int(arg, has1, arg1, st))

HasArg1 == argp + 1 <= Len(argv)

Arg1 == IF HasArg1 THEN argv[argp + 1] ELSE ""

Turn == Resolve(argv[argp], HasArg1, Arg1, St)

\* util.h: print the diagnostic and exit(1)
eprintf(msg) ==
    /\ stderr' = msg
    /\ status' = 1
    /\ pc' = "done"

----------------------------------------------------------------------------
(* The device *)

NoPad(m) == [m EXCEPT !.pad = <<0, 0, 0>>]

\* a pseudo-terminal forces eight bits, no parity, receiver on
PtyCoerce(m) ==
    [m EXCEPT !.c_cflag = ((@ \ (CSIZE \cup PARENB)) \cup CS8) \cup CREAD]

\* the attributes the device holds after an accepted tcsetattr of m
Driven(d, m) == IF d = "pty" THEN PtyCoerce(NoPad(m)) ELSE NoPad(m)

\* what tcgetattr stores in a zeroed struct termios
tcgetattr(d) == NoPad(d)

\* the two optional actions the other way round
TcsetattrCallSwapped(m) ==
    [call |-> "tcsetattr",
     arg |-> [when |-> IF drain_requested THEN "TCSANOW" ELSE "TCSADRAIN",
              termios |-> m]]

TcsetattrCall(m) ==
    [call |-> "tcsetattr",
     arg |-> [when |-> IF drain_requested THEN "TCSADRAIN" ELSE "TCSANOW",
              termios |-> m]]

----------------------------------------------------------------------------
(* The arguments and devices of the model *)

MaxOperands == 2    \* operand units of a generated argument list

SaneCc ==
    [SaneKeys(ZeroTermios.c_cc, 1) EXCEPT ![VMIN] = 1, ![VTIME] = 0]

SaneDev ==
    [c_iflag |-> ICRNL \cup IXON \cup BRKINT \cup IMAXBEL \cup IUTF8,
     c_oflag |-> OPOST \cup ONLCR,
     c_cflag |-> CS8 \cup CREAD \cup HUPCL,
     c_lflag |-> ISIG \cup ICANON \cup IEXTEN \cup ECHO \cup ECHOE \cup ECHOK
                    \cup ECHOCTL \cup ECHOKE,
     c_line |-> 0, c_cc |-> SaneCc, pad |-> <<0, 0, 0>>,
     c_ispeed |-> 15, c_ospeed |-> 15]

\* a line in a raw-like state with split speeds
OddDev ==
    [c_iflag |-> IGNPAR \cup ISTRIP \cup IXANY,
     c_oflag |-> CR1 \cup TAB3 \cup ONLRET,
     c_cflag |-> CS8 \cup CREAD \cup CLOCAL \cup CSTOPB,
     c_lflag |-> ECHO \cup NOFLSH \cup XCASE,
     c_line |-> 1,
     c_cc |-> [SaneCc EXCEPT ![VINTR] = 127, ![VEOF] = 0, ![VMIN] = 5,
                             ![VTIME] = 2, ![VEOL2] = 200],
     pad |-> <<0, 0, 0>>, c_ispeed |-> 7, c_ospeed |-> 13]

DevStates == {SaneDev, OddDev}

\* the window geometry the device has when the run starts
StartWinsize == [ws_row |-> 24, ws_col |-> 80]

\* a state with every padding byte set: no device reports it
PaddedState == [OddDev EXCEPT !.pad = <<1, 2, 255>>]

RECURSIVE UpperRange(_, _, _)
UpperRange(str, lo, hi) ==
    IF lo > hi THEN ""
    ELSE IF lo = hi
    THEN LET c == CharAt(str, lo)
         IN  IF Ord(c) >= 97 /\ Ord(c) <= 102 THEN Chr(Ord(c) - 32) ELSE c
    ELSE LET mid == (lo + hi) \div 2
         IN  UpperRange(str, lo, mid) \o UpperRange(str, mid + 1, hi)

\* the same hex text in capitals
UpperHex(str) == UpperRange(str, 1, Len(str))

\* operand units: an operand with the value it takes, if it is given one
Units ==
    { <<"raw">>, <<"echo">>, <<"-echo">>, <<"cs7">>, <<"-cs7">>, <<"-drain">>,
      <<"speed">>, <<"rows", "10">>, <<"columns">>, <<"min", "300">>,
      <<"intr", "^c">>, <<"line", "slip">>, <<"ispeed", "300">>, <<"9600">>,
      <<"bogus">>,
      <<"=" \o encodehex(OddDev)>>, <<"=" \o UpperHex(encodehex(SaneDev))>>,
      <<"=" \o encodehex(PaddedState)>>,
      <<"=0a">>, <<"=" \o SubSeq(encodehex(SaneDev), 1, 2 * TermiosSize - 1) \o "g">> }

RECURSIVE UnitLists(_)
UnitLists(n) ==
    IF n = 0 THEN {<<>>}
    ELSE LET shorter == UnitLists(n - 1)
         IN  shorter \cup {l \o u : l \in shorter, u \in Units}

\* longer runs worth having whatever MaxOperands is
Scenarios ==
    { <<"ispeed", "300", "ospeed", "9600", "speed">>,
      <<"ispeed", "0", "ospeed", "9600", "speed">>,
      <<"rows", "10", "cols", "132", "raw", "min", "9999">>,
      <<"-echo", "raw", "sane", "=" \o encodehex(SaneDev)>>,
      <<"eof", "undef", "time", "7", "line", "3", "0">>,
      <<"drain", "-drain", "drain", "cs7", "size">>,
      <<"-raw", "size", "ospeed", "9600">>,
      <<"min", "50", "intr", "0", "rows", "9600", "line", "0">>,
      <<"raw", "erase">>, <<"cs7", "line">>, <<"ispeed", "9600", "time">>,
      <<"-drain", "drain", "cs7">>, <<"drain", "-drain", "raw">>,
      <<"drain", "-drain">>, <<"-drain", "cs7", "line", "drain">> }

FlagLists ==
    { <<>>, <<"-a">>, <<"-g">>, <<"--">>, <<"-a", "-g">>, <<"-ag">>,
      <<"-g", "--">> }

ArgLists == {f \o l : f \in FlagLists, l \in UnitLists(MaxOperands) \cup Scenarios}

Drivers == {"exact", "pty", "reject"}

OutCols == {0, 41, 80}

----------------------------------------------------------------------------
(* main *)

Init ==
    /\ argv \in ArgLists
    /\ argp = 1
    /\ argc = Len(argv)
    /\ aflag = FALSE
    /\ gflag = FALSE
    /\ mode = ZeroTermios
    /\ mode2 = ZeroTermios
    /\ drain_requested = TRUE
    /\ output_size_requested = FALSE
    /\ output_speed_requested = FALSE
    /\ dev \in DevStates
    /\ winsize = StartWinsize
    /\ drv = ""
    /\ outcols = -1
    /\ calls = <<>>
    /\ out = <<>>
    /\ stderr = ""
    /\ status = -1
    /\ pc = "flags"

AtFlag(names) == pc = "flags" /\ argc # 0 /\ argv[argp] \in names

FlagStep(a, g) ==
    /\ aflag' = a
    /\ gflag' = g
    /\ argp' = argp + 1
    /\ argc' = argc - 1
    /\ UNCHANGED <<argv, mode, mode2, drain_requested, output_size_requested,
                   output_speed_requested, dev, winsize, drv, outcols, calls,
                   out, stderr, status>>

FlagAG == AtFlag({"-ag", "-ga"}) /\ FlagStep(TRUE, TRUE) /\ pc' = "flags"

FlagG == AtFlag({"-g"}) /\ FlagStep(aflag, TRUE) /\ pc' = "flags"

FlagA == AtFlag({"-a"}) /\ FlagStep(TRUE, gflag) /\ pc' = "flags"

FlagEnd == AtFlag({"--"}) /\ FlagStep(aflag, gflag) /\ pc' = "usage"

FlagsDone ==
    /\ pc = "flags"
    /\ IF argc = 0 THEN TRUE
       ELSE argv[argp] \notin {"-ag", "-ga", "-g", "-a", "--"}
    /\ pc' = "usage"
    /\ UNCHANGED <<argv, argp, argc, aflag, gflag, mode, mode2, drain_requested,
                   output_size_requested, output_speed_requested, dev, winsize,
                   drv, outcols, calls, out, stderr, status>>

UsageText == "usage: stty [-a | -g] [operand ...]"

\* the test made for the combined spelling only
BothFlagsInOneArgument == aflag /\ gflag /\ argv[1] \in {"-ag", "-ga"}

\* if (aflag && gflag)
BothFlags == aflag /\ gflag

Usage ==
    /\ pc = "usage"
    /\ BothFlags
    /\ eprintf(UsageText)
    /\ UNCHANGED <<argv, argp, argc, aflag, gflag, mode, mode2, drain_requested,
                   output_size_requested, output_speed_requested, dev, winsize,
                   drv, outcols, calls, out>>

\* memset, tcgetattr, memcpy
Snapshot ==
    /\ pc = "usage"
    /\ ~BothFlags
    /\ mode' = tcgetattr(dev)
    /\ mode2' = tcgetattr(dev)
    /\ pc' = "operands"
    /\ UNCHANGED <<argv, argp, argc, aflag, gflag, drain_requested,
                   output_size_requested, output_speed_requested, dev, winsize,
                   drv, outcols, calls, out, stderr, status>>

TakeTurn(r) ==
    /\ mode' = r.st.mode
    /\ drain_requested' = r.st.drain_requested
    /\ output_size_requested' = r.st.output_size_requested
    /\ output_speed_requested' = r.st.output_speed_requested
    /\ winsize' = r.st.winsize
    /\ calls' = r.st.calls
    /\ UNCHANGED <<argv, argc, aflag, gflag, mode2, dev, drv, outcols, out>>

Advance(r) ==
    /\ r.err = ""
    /\ TakeTurn(r)
    /\ argp' = argp + r.adv
    /\ UNCHANGED <<stderr, status, pc>>

Operand ==
    /\ pc = "operands"
    /\ argp <= Len(argv)
    /\ Advance(Turn)

Die(r) ==
    /\ r.err # ""
    /\ TakeTurn(r)
    /\ eprintf(r.err)
    /\ UNCHANGED argp

OperandFatal ==
    /\ pc = "operands"
    /\ argp <= Len(argv)
    /\ Die(Turn)

OperandsDone ==
    /\ pc = "operands"
    /\ argp > Len(argv)
    /\ pc' = "commit"
    /\ UNCHANGED <<argv, argp, argc, aflag, gflag, mode, mode2, drain_requested,
                   output_size_requested, output_speed_requested, dev, winsize,
                   drv, outcols, calls, out, stderr, status>>

\* if (memcmp(&mode, &mode2, sizeof(mode)))
\* the comparison taken field by field, blind to the padding bytes
MustCommitFieldwise == NoPad(mode) # NoPad(mode2)

\* if (memcmp(&mode, &mode2, sizeof(mode)))
MustCommit == memcmp(mode, mode2)

NoCommit ==
    /\ pc = "commit"
    /\ ~MustCommit
    /\ pc' = "output"
    /\ UNCHANGED <<argv, argp, argc, aflag, gflag, mode, mode2, drain_requested,
                   output_size_requested, output_speed_requested, dev, winsize,
                   drv, outcols, calls, out, stderr, status>>

\* tcsetattr fails: the device is as it was
CommitRejected ==
    /\ pc = "commit"
    /\ MustCommit
    /\ drv' = "reject"
    /\ mode2' = ZeroTermios
    /\ calls' = Append(calls, TcsetattrCall(mode))
    /\ eprintf("tcsetattr <stdin>:")
    /\ UNCHANGED <<argv, argp, argc, aflag, gflag, mode, drain_requested,
                   output_size_requested, output_speed_requested, dev, winsize,
                   outcols, out>>

CommitFailed == "tcsetattr <stdin>: unable to apply all operands"

\* the comparison taken over sizeof(&mode) bytes
MismatchPointerSized(m, m2) == SubSeq(Bytes(m), 1, 8) # SubSeq(Bytes(m2), 1, 8)

\* memcmp(&mode, &mode2, sizeof(mode)) after the re-read
Mismatch(m, m2) == memcmp(m, m2)

\* tcsetattr succeeds, tcgetattr re-reads, and the two states agree
CommitVerified ==
    /\ pc = "commit"
    /\ MustCommit
    /\ \E d \in Drivers \ {"reject"} :
        /\ drv' = d
        /\ dev' = Driven(d, mode)
        /\ mode2' = tcgetattr(Driven(d, mode))
        /\ ~Mismatch(mode, tcgetattr(Driven(d, mode)))
    /\ calls' = Append(calls, TcsetattrCall(mode))
    /\ pc' = "output"
    /\ UNCHANGED <<argv, argp, argc, aflag, gflag, mode, drain_requested,
                   output_size_requested, output_speed_requested, winsize,
                   outcols, out, stderr, status>>

\* tcsetattr succeeds, tcgetattr re-reads, and the two states differ
CommitMismatch ==
    /\ pc = "commit"
    /\ MustCommit
    /\ \E d \in Drivers \ {"reject"} :
        /\ drv' = d
        /\ dev' = Driven(d, mode)
        /\ mode2' = tcgetattr(Driven(d, mode))
        /\ Mismatch(mode, tcgetattr(Driven(d, mode)))
    /\ calls' = Append(calls, TcsetattrCall(mode))
    /\ eprintf(CommitFailed)
    /\ UNCHANGED <<argv, argp, argc, aflag, gflag, mode, drain_requested,
                   output_size_requested, output_speed_requested, winsize,
                   outcols, out>>

\* the line -g prints
StateLine(m) == "=" \o encodehex(m)

\* the line the size operand asked for
SizeLine(ws) == ToString(ws.ws_row) \o " " \o ToString(ws.ws_col)

\* the line the speed operand asked for
SpeedLine(m) ==
    IF cfgetispeed(m) = 0 \/ cfgetispeed(m) = cfgetospeed(m)
    THEN baudtostr(cfgetospeed(m))
    ELSE baudtostr(cfgetispeed(m)) \o " " \o baudtostr(cfgetospeed(m))

\* the test without its last term
MustDisplayWhateverG == aflag \/ argc = 0

\* (aflag || !argc) && !gflag
MustDisplay == (aflag \/ argc = 0) /\ ~gflag

\* the three optional lines after the commit
Output ==
    /\ pc = "output"
    /\ out' = out \o (IF gflag THEN <<StateLine(mode)>> ELSE <<>>)
                  \o (IF output_size_requested THEN <<SizeLine(winsize)>> ELSE <<>>)
                  \o (IF output_speed_requested THEN <<SpeedLine(mode)>> ELSE <<>>)
    /\ pc' = IF MustDisplay THEN "display" ELSE "return"
    /\ UNCHANGED <<argv, argp, argc, aflag, gflag, mode, mode2, drain_requested,
                   output_size_requested, output_speed_requested, dev, winsize,
                   drv, outcols, calls, stderr, status>>

\* displaysettings(&mode, aflag); return 0
Display ==
    /\ pc = "display"
    /\ \E ws_col \in OutCols :
        /\ outcols' = ws_col
        /\ out' = out \o displaysettings(mode, aflag, winsize, ws_col)
    /\ status' = 0
    /\ pc' = "done"
    /\ UNCHANGED <<argv, argp, argc, aflag, gflag, mode, mode2, drain_requested,
                   output_size_requested, output_speed_requested, dev, winsize,
                   drv, calls, stderr>>

Return ==
    /\ pc = "return"
    /\ status' = 0
    /\ pc' = "done"
    /\ UNCHANGED <<argv, argp, argc, aflag, gflag, mode, mode2, drain_requested,
                   output_size_requested, output_speed_requested, dev, winsize,
                   drv, outcols, calls, out, stderr>>

Next ==
    \/ FlagAG
    \/ FlagG
    \/ FlagA
    \/ FlagEnd
    \/ FlagsDone
    \/ Usage
    \/ Snapshot
    \/ Operand
    \/ OperandFatal
    \/ OperandsDone
    \/ NoCommit
    \/ CommitRejected
    \/ CommitVerified
    \/ CommitMismatch
    \/ Output
    \/ Display
    \/ Return

Spec == Init /\ [][Next]_vars

----------------------------------------------------------------------------
(* The hex codec on its own: a state with any one byte set to any value is *)
(* printed as -g prints it, and the line is given back as an operand.      *)

CodecStates == {SaneDev, PaddedState}

CodecInit ==
    /\ argv = <<>>
    /\ argp = 1
    /\ argc = 0
    /\ aflag = FALSE
    /\ gflag = TRUE
    /\ mode \in CodecStates
    /\ mode2 = ZeroTermios
    /\ drain_requested = TRUE
    /\ output_size_requested = FALSE
    /\ output_speed_requested = FALSE
    /\ dev = ZeroTermios
    /\ winsize = StartWinsize
    /\ drv = ""
    /\ outcols = -1
    /\ calls = <<>>
    /\ out = <<>>
    /\ stderr = ""
    /\ status = -1
    /\ pc = "poke"

CodecFrame ==
    UNCHANGED <<argp, argc, aflag, gflag, drain_requested, output_size_requested,
                output_speed_requested, dev, winsize, drv, outcols, calls,
                stderr, status>>

\* one byte of the state takes any value
Poke ==
    /\ pc = "poke"
    /\ \E at \in 1..TermiosSize, v \in Byte :
            mode' = FromBytes([Bytes(mode) EXCEPT ![at] = v])
    /\ pc' = "encode"
    /\ UNCHANGED <<argv, mode2, out>>
    /\ CodecFrame

\* the -g branch of main
Encode ==
    /\ pc = "encode"
    /\ out' = <<StateLine(mode)>>
    /\ pc' = "decode"
    /\ UNCHANGED <<argv, mode, mode2>>
    /\ CodecFrame

\* the printed line as the operand of a run whose working state is zeroed
Decode ==
    /\ pc = "decode"
    /\ argv' = out
    /\ mode2' = Resolve(out[1], FALSE, "", [St EXCEPT !.mode = ZeroTermios]).st.mode
    /\ pc' = "decoded"
    /\ UNCHANGED <<mode, out>>
    /\ CodecFrame

CodecNext == Poke \/ Encode \/ Decode

CodecSpec == CodecInit /\ [][CodecNext]_vars

----------------------------------------------------------------------------
(* The mode operands on their own: the operand loop of main from a wide    *)
(* set of working states, over every negatable name of the catalog and the *)
(* raw, cooked and sane combinations, and then the display a later run     *)
(* gives of the state, without operands (the differences, pc = "done") or  *)
(* with -a (everything, pc = "dumped").                                    *)

AllSet ==
    [c_iflag |-> 0..14, c_oflag |-> 0..15, c_cflag |-> (4..11) \cup {30, 31},
     c_lflag |-> (0..12) \cup {15, 16}, c_line |-> 3,
     c_cc |-> [i \in 0..(NCCS - 1) |-> 255], pad |-> <<0, 0, 0>>,
     c_ispeed |-> 13, c_ospeed |-> 13]

Flip(w, b) == IF b \in w THEN w \ {b} ELSE w \cup {b}

\* base with any one flag bit the other way
Flips(base) ==
    {[base EXCEPT !.c_iflag = Flip(@, b)] : b \in AllSet.c_iflag}
        \cup {[base EXCEPT !.c_oflag = Flip(@, b)] : b \in AllSet.c_oflag}
        \cup {[base EXCEPT !.c_cflag = Flip(@, b)] : b \in AllSet.c_cflag}
        \cup {[base EXCEPT !.c_lflag = Flip(@, b)] : b \in AllSet.c_lflag}

ModeStates ==
    {ZeroTermios, AllSet, SaneDev, OddDev} \cup Flips(SaneDev) \cup Flips(OddDev)

\* the names parseoperand_mode accepts with a leading "-"
BoolOps == {modes[i].op : i \in {j \in 1..Len(modes) : BOOL \subseteq modes[j].flags}}

\* the members of the fields: the entries with a clear mask
FieldOps ==
    {modes[i].op : i \in {j \in 1..Len(modes) :
                            modes[j].type # COMB /\ modes[j].clear # {}}}

\* the names parseoperand_mode refuses with a leading "-"
NonBoolOps == {modes[i].op : i \in 1..Len(modes)} \ BoolOps

ModeLists ==
    {<<x, "-" \o x>> : x \in BoolOps}
        \cup {<<x>> : x \in FieldOps}
        \cup {<<"-" \o x>> : x \in NonBoolOps}
        \cup {<<"raw">>, <<"-raw">>, <<"cooked">>, <<"sane">>, <<"sane", "sane">>,
              <<"raw", "sane">>, <<"sane", "-raw">>}

ModeInit ==
    /\ argv \in ModeLists
    /\ argp = 1
    /\ argc = Len(argv)
    /\ aflag = FALSE
    /\ gflag = FALSE
    /\ mode \in ModeStates
    /\ mode2 = mode
    /\ drain_requested = TRUE
    /\ output_size_requested = FALSE
    /\ output_speed_requested = FALSE
    /\ dev = mode
    /\ winsize = StartWinsize
    /\ drv = ""
    /\ outcols = -1
    /\ calls = <<>>
    /\ out = <<>>
    /\ stderr = ""
    /\ status = -1
    /\ pc = "operands"

\* displaysettings(&mode, 0) of the state the operands left
ModeShow ==
    /\ pc = "operands"
    /\ argp > Len(argv)
    /\ \E ws_col \in OutCols :
        /\ outcols' = ws_col
        /\ out' = displaysettings(mode, FALSE, winsize, ws_col)
    /\ status' = 0
    /\ pc' = "done"
    /\ UNCHANGED <<argv, argp, argc, aflag, gflag, mode, mode2, drain_requested,
                   output_size_requested, output_speed_requested, dev, winsize,
                   drv, calls, stderr>>

\* displaysettings(&mode, 1) of the state the operands left
ModeShowAll ==
    /\ pc = "operands"
    /\ argp > Len(argv)
    /\ \E ws_col \in OutCols :
        /\ outcols' = ws_col
        /\ out' = displaysettings(mode, TRUE, winsize, ws_col)
    /\ status' = 0
    /\ pc' = "dumped"
    /\ UNCHANGED <<argv, argp, argc, aflag, gflag, mode, mode2, drain_requested,
                   output_size_requested, output_speed_requested, dev, winsize,
                   drv, calls, stderr>>

ModeNext == Operand \/ OperandFatal \/ ModeShow \/ ModeShowAll

ModeSpec == ModeInit /\ [][ModeNext]_vars

----------------------------------------------------------------------------
(* The operands that take a value on their own: the operand loop of main   *)
(* at min, time or a key with every short token as the value, and then the *)
(* dump a later run with -a gives of the state.                            *)

MaxTokenLen == 3    \* characters of a generated value token

TokenChars == Chars("012569xa^?-+ ")

RECURSIVE TokensUpTo(_)
TokensUpTo(n) ==
    IF n = 0 THEN {""}
    ELSE LET shorter == TokensUpTo(n - 1)
         IN  shorter \cup {t \o c : t \in shorter, c \in TokenChars}

\* longer tokens worth having whatever MaxTokenLen is
LongTokens == {"undef", "^-^-", "0377", "0400", "0xff", "0x100", "9999", "00012"}

ValueTokens == TokensUpTo(MaxTokenLen) \cup LongTokens

ValueOps == {"min", "time", "intr", "eol2"}

ValueLists == {<<op, t>> : op \in ValueOps, t \in ValueTokens}

ValueInit ==
    /\ argv \in ValueLists
    /\ argp = 1
    /\ argc = Len(argv)
    /\ aflag = TRUE
    /\ gflag = FALSE
    /\ mode \in DevStates
    /\ mode2 = mode
    /\ drain_requested = TRUE
    /\ output_size_requested = FALSE
    /\ output_speed_requested = FALSE
    /\ dev = mode
    /\ winsize = StartWinsize
    /\ drv = ""
    /\ outcols = -1
    /\ calls = <<>>
    /\ out = <<>>
    /\ stderr = ""
    /\ status = -1
    /\ pc = "operands"

\* displaysettings(&mode, 1) of the state the operands left
ValueShow ==
    /\ pc = "operands"
    /\ argp > Len(argv)
    /\ \E ws_col \in OutCols :
        /\ outcols' = ws_col
        /\ out' = displaysettings(mode, TRUE, winsize, ws_col)
    /\ status' = 0
    /\ pc' = "done"
    /\ UNCHANGED <<argv, argp, argc, aflag, gflag, mode, mode2, drain_requested,
                   output_size_requested, output_speed_requested, dev, winsize,
                   drv, calls, stderr>>

ValueNext == Operand \/ OperandFatal \/ ValueShow

ValueSpec == ValueInit /\ [][ValueNext]_vars

----------------------------------------------------------------------------
(* printtoken on its own: any sequence of calls, each with a text or the   *)
(* forced break.  calls is the log of the calls made, out the lines ended  *)
(* by a newline; printtoken's static width comes from outcols and its      *)
(* static pos, with the line being written, from the calls made so far.    *)

MaxCalls == 5    \* calls of printtoken in a sequence

RECURSIVE Filled(_)
Filled(n) == IF n = 0 THEN "" ELSE Filled(n - 1) \o "x"

\* texts of 1, 20, 21 and 42 characters
PrintTexts == {Filled(1), Filled(20), Filled(21), Filled(42)}

\* the texts of the calls made, in order
PrintedTexts == [i \in 1..Len(calls) |-> calls[i].arg]

\* printtoken's line buffer after the calls made
Buffer ==
    PrintAll(EmptyBuf, TokenWidth(outcols), PrintedTexts, 1, Len(calls))

PrintInit ==
    /\ argv = <<>>
    /\ argp = 1
    /\ argc = 0
    /\ aflag = FALSE
    /\ gflag = FALSE
    /\ mode = ZeroTermios
    /\ mode2 = ZeroTermios
    /\ drain_requested = TRUE
    /\ output_size_requested = FALSE
    /\ output_speed_requested = FALSE
    /\ dev = ZeroTermios
    /\ winsize = StartWinsize
    /\ drv = ""
    /\ outcols \in OutCols
    /\ calls = <<>>
    /\ out = <<>>
    /\ stderr = ""
    /\ status = -1
    /\ pc = "print"

PrintFrame ==
    UNCHANGED <<argv, argp, argc, aflag, gflag, mode, mode2, drain_requested,
                output_size_requested, output_speed_requested, dev, winsize,
                drv, outcols, stderr, status, pc>>

\* one call of printtoken with the text tok
PrintCall(tok) ==
    /\ pc = "print"
    /\ Len(calls) < MaxCalls
    /\ calls' = Append(calls, [call |-> "printtoken", arg |-> tok])
    /\ out' = printtoken(Buffer, TokenWidth(outcols), tok).lines
    /\ PrintFrame

\* printtoken("...") with a formatted text
PrintText == \E tok \in PrintTexts : PrintCall(tok)

\* printtoken("\n")
PrintBreak == PrintCall("\n")

PrintNext == PrintText \/ PrintBreak

PrintSpec == PrintInit /\ [][PrintNext]_vars

----------------------------------------------------------------------------
(* Observations the properties below are stated with *)

TcsetattrCalls == {i \in DOMAIN calls : calls[i].call = "tcsetattr"}

WinsizeCalls == {i \in DOMAIN calls : calls[i].call = "TIOCSWINSZ"}

Written == TcsetattrCalls # {}

\* the run has ended on the operand argv[argp]
OperandFailed ==
    /\ pc = "done"
    /\ argp <= Len(argv)
    /\ stderr \in {InvalidOperand(argv[argp]), MissingArgument(argv[argp])}

\* the operand loop is at an operand with one of these names
AtOperand(names) ==
    /\ pc = "operands"
    /\ argp <= Len(argv)
    /\ argv[argp] \in names

\* the operand loop is at an operand that begins with "="
AtLiteral ==
    /\ pc = "operands"
    /\ argp <= Len(argv)
    /\ Len(argv[argp]) > 0
    /\ CharAt(argv[argp], 1) = "="

\* exactly two hex digits for each byte of the state
WellFormedHex(p) ==
    /\ Len(p) = 2 * TermiosSize
    /\ \A i \in 1..Len(p) : CharAt(p, i) \in Chars("0123456789abcdefABCDEF")

LastIsLiteral ==
    /\ Len(argv) > 0
    /\ Len(argv[Len(argv)]) > 0
    /\ CharAt(argv[Len(argv)], 1) = "="

\* the operands were x and -x, and both have been applied
Negated ==
    /\ Len(argv) = 2
    /\ argv[1] \in BoolOps
    /\ argv[2] = "-" \o argv[1]
    /\ argp = 3

Entry(name) == modes[Find(modes, "op", name)]

\* the same, x naming one flag of one flag group
NegatedFlag == Negated /\ BitsField(Entry(argv[1]).type) # ""

\* str has a token that begins with prefix
HasToken(str, prefix) ==
    \E i \in 1..(Len(str) - Len(prefix) + 1) :
        /\ SubSeq(str, i, i + Len(prefix) - 1) = prefix
        /\ (i = 1 \/ CharAt(str, i - 1) = " ")

SpeedNames == {speeds[i].str : i \in 1..Len(speeds)}

\* the run succeeded and printed the line of the speed operand
SpeedPrinted == pc = "done" /\ status = 0 /\ output_speed_requested

\* it comes after the -g line and the size line
PrintedSpeed ==
    out[1 + (IF gflag THEN 1 ELSE 0) + (IF output_size_requested THEN 1 ELSE 0)]

Baud(sp) == speeds[Find(speeds, "speed", sp)].str

----------------------------------------------------------------------------
(* C1.  When an operand fails with InvalidOperand or MissingArgument the   *)
(* run exits non-zero and the device is as the run found it: no terminal   *)
(* attribute has been written and the window geometry is unchanged,        *)
(* whatever operands (rows, cols, columns among them) came before.         *)
C1_FailedRunLeavesDevice ==
    OperandFailed =>
        /\ status = 1
        /\ ~Written
        /\ WinsizeCalls = {}
        /\ winsize = StartWinsize

----------------------------------------------------------------------------
\* C2, in every state: tcsetattr is called at most once, and only when
\* every operand has been resolved without error
C2_Once ==
    /\ Cardinality(TcsetattrCalls) <= 1
    /\ Written => argp > Len(argv) /\ ~OperandFailed
    /\ pc \in {"flags", "usage", "operands", "commit"} => ~Written

\* C2, the commit step: it calls the device exactly when the working state
\* differs byte for byte from the snapshot
C2_CommitStep ==
    pc = "commit" => ((calls' # calls) <=> (Bytes(mode) # Bytes(mode2)))

(* C2.  The terminal attributes are written at most once, only when every  *)
(* operand has been resolved without error, and if and only if the working *)
(* state then differs byte for byte from the snapshot: operands whose net  *)
(* effect is nil cause no write.                                           *)
C2_WriteOnceIffChanged == []C2_Once /\ [][C2_CommitStep]_vars

\* operands that changed the working state and changed it back: the run is
\* past the commit with nothing written
C2_NetZeroRun ==
    /\ argv = <<"-echo", "echo">>
    /\ pc = "output"
    /\ calls = <<>>

----------------------------------------------------------------------------
(* C3.  A run that wrote the device and exits 0 leaves the device          *)
(* reporting exactly the working state; when the re-read differs the run   *)
(* exits non-zero, has written once only (no rollback), and the device     *)
(* holds what the driver made of the working state.                        *)
C3_VerifiedOrFatal ==
    /\ (Written /\ status = 0) => Bytes(tcgetattr(dev)) = Bytes(mode)
    /\ (pc = "done" /\ stderr = CommitFailed) =>
            /\ status = 1
            /\ Cardinality(TcsetattrCalls) = 1
            /\ dev = Driven(drv, mode)
            /\ Bytes(tcgetattr(dev)) # Bytes(mode)

\* the driver coerced the request and the run ended on the mismatch
C3_CoercedCommit ==
    /\ pc = "done"
    /\ stderr = CommitFailed
    /\ drv = "pty"
    /\ dev # mode

----------------------------------------------------------------------------
(* C4.  Decoding the hex text that encoding a state produces gives the     *)
(* state back byte for byte, whatever value 0..255 any byte has.           *)
C4_RoundTrip ==
    pc = "decoded" => Bytes(mode2) = Bytes(mode) /\ mode2 = mode

\* a state with bytes ab and ff went through the codec
C4_LetterByteDecoded ==
    /\ pc = "decoded"
    /\ \E at \in 1..TermiosSize : Bytes(mode)[at] = 255
    /\ \E at \in 1..TermiosSize : Bytes(mode)[at] = 171

----------------------------------------------------------------------------
\* C5, the step at a literal: it stores exactly the decoded bytes, or ends
\* the run with InvalidOperand and the working state untouched
C5_LiteralStep ==
    AtLiteral =>
        IF WellFormedHex(Tail(argv[argp]))
        THEN /\ Bytes(mode') = decodehex(Tail(argv[argp]))
             /\ argp' = argp + 1
             /\ pc' = "operands"
             /\ stderr' = ""
        ELSE /\ mode' = mode
             /\ stderr' = InvalidOperand(argv[argp])
             /\ status' = 1
             /\ pc' = "done"

\* C5, the output: a run that succeeds with -g and has a literal as its
\* last operand prints the state the literal denotes
C5_Printed ==
    (pc = "done" /\ status = 0 /\ gflag /\ LastIsLiteral) =>
        /\ Len(out) >= 1
        /\ Len(out[1]) = 1 + 2 * TermiosSize
        /\ CharAt(out[1], 1) = "="
        /\ decodehex(Tail(out[1])) = decodehex(Tail(argv[Len(argv)]))

(* C5.  An operand beginning with "=" ends the run with InvalidOperand and *)
(* the working state untouched unless the rest is exactly two hex digits   *)
(* per byte of the state; accepted, it replaces the whole working state    *)
(* with the decoded bytes, whatever earlier operands did, and a successful *)
(* run with -g then prints exactly that state.                             *)
C5_HexLiteral == []C5_Printed /\ [][C5_LiteralStep]_vars

\* raw, then a literal that undoes it, then the -g line: the literal itself
C5_LiteralPrinted ==
    /\ pc = "done"
    /\ status = 0
    /\ argv = <<"-g", "raw", "=" \o encodehex(OddDev)>>
    /\ out = <<argv[3]>>

----------------------------------------------------------------------------
(* C6 as claimed.  For every operand x of the catalog that can be negated  *)
(* (one flag or a combination), x and then -x leave every flag group with  *)
(* the bit pattern it had before x.                                        *)
C6_NegationRestores ==
    Negated =>
        /\ mode.c_iflag = mode2.c_iflag
        /\ mode.c_oflag = mode2.c_oflag
        /\ mode.c_cflag = mode2.c_cflag
        /\ mode.c_lflag = mode2.c_lflag

(* C6 as the code has it.  For every negatable operand x that names one    *)
(* flag of one group (type CTRL, IN, OUT or LOCAL), x and then -x leave    *)
(* that group as it was before x but with x's bit clear, and everything    *)
(* else of the state as it was: the pattern before x comes back exactly    *)
(* when x's bit was clear in it.                                           *)
C6_NegationClears ==
    NegatedFlag =>
        /\ mode[BitsField(Entry(argv[1]).type)]
                = mode2[BitsField(Entry(argv[1]).type)] \ Entry(argv[1]).set
        /\ [mode EXCEPT ![BitsField(Entry(argv[1]).type)] = {}]
                = [mode2 EXCEPT ![BitsField(Entry(argv[1]).type)] = {}]
        /\ (mode = mode2) <=>
                (Entry(argv[1]).set \cap mode2[BitsField(Entry(argv[1]).type)] = {})

\* echo, -echo from a state that had ECHO set: ECHO is gone
C6_EchoLost ==
    /\ NegatedFlag
    /\ argv[1] = "echo"
    /\ mode2 = SaneDev
    /\ mode.c_lflag = SaneDev.c_lflag \ ECHO

----------------------------------------------------------------------------
\* C7, the step at raw, -raw or cooked
C7_RawStep ==
    /\ AtOperand({"raw"}) =>
            /\ mode'.c_iflag = {}
            /\ mode'.c_cc[VMIN] = 1
            /\ mode'.c_cc[VTIME] = 0
    /\ AtOperand({"-raw", "cooked"}) =>
            /\ {1, 2, 5, 8, 10} \subseteq mode'.c_iflag
            /\ mode' = parseoperand_mode("-raw", St).st.mode
            /\ mode' = parseoperand_mode("cooked", St).st.mode

(* C7.  raw leaves the input flag group empty, the minimum read count 1    *)
(* and the read timeout 0 whatever the state was; -raw, and cooked, which  *)
(* does the same, leave BRKINT, IGNPAR, ISTRIP, ICRNL and IXON all set.    *)
C7_RawAndCooked == [][C7_RawStep]_vars

\* raw applied to a state with input flags set and other read parameters
C7_RawApplied ==
    /\ argv = <<"raw">>
    /\ argp = 2
    /\ mode2 = OddDev
    /\ mode.c_iflag = {}
    /\ mode.c_cc[VMIN] = 1

----------------------------------------------------------------------------
\* C8, the step at a second sane: the control characters stay
C8_SecondSane ==
    (AtOperand({"sane"}) /\ argp > 1 /\ argv[argp - 1] = "sane") =>
        mode'.c_cc = mode.c_cc

\* C8, the differences display of a state sane has just produced: every
\* key has its sane value and no key, min or time token is printed
C8_SaneDisplayed ==
    (pc = "done" /\ argv[Len(argv)] = "sane") =>
        /\ \A k \in 1..Len(keys) : mode.c_cc[keys[k].index] = keys[k].sanevalue
        /\ \A k \in 1..Len(keys), n \in 1..Len(out) :
                ~HasToken(out[n], keys[k].op \o " = ")
        /\ \A n \in 1..Len(out) :
                ~HasToken(out[n], "min = ") /\ ~HasToken(out[n], "time = ")

(* C8.  A second sane leaves the control characters as the first left      *)
(* them, and the differences display of a state that sane has just         *)
(* produced has no control-character token: every key has its sane value.  *)
C8_SaneIdempotent == []C8_SaneDisplayed /\ [][C8_SecondSane]_vars

\* sane twice from a state with no key at its sane value, then displayed
C8_SaneTwiceShown ==
    /\ pc = "done"
    /\ argv = <<"sane", "sane">>
    /\ mode2 = AllSet
    /\ Len(out) > 0

----------------------------------------------------------------------------
(* C9 as claimed.  The line the speed operand asks for is one baud token   *)
(* when the input speed equals the output speed, and the two tokens        *)
(* "<input> <output>" whenever the two speeds are unequal.                 *)
C9_TwoTokensWhenUnequal ==
    SpeedPrinted =>
        IF cfgetispeed(mode) = cfgetospeed(mode)
        THEN PrintedSpeed = Baud(cfgetospeed(mode))
        ELSE PrintedSpeed = Baud(cfgetispeed(mode)) \o " " \o Baud(cfgetospeed(mode))

\* C9, the step at a bare speed token: both speeds take the named value
C9_BareSpeedStep ==
    AtOperand(SpeedNames) =>
        /\ cfgetispeed(mode') = speeds[Find(speeds, "str", argv[argp])].speed
        /\ cfgetospeed(mode') = speeds[Find(speeds, "str", argv[argp])].speed
        /\ argp' = argp + 1

\* C9, the line of the speed operand: the output speed alone when the input
\* speed is 0 or equals it, "<input> <output>" otherwise
C9_SpeedLine ==
    SpeedPrinted =>
        /\ IF cfgetispeed(mode) = 0 \/ cfgetispeed(mode) = cfgetospeed(mode)
           THEN PrintedSpeed = Baud(cfgetospeed(mode))
           ELSE PrintedSpeed
                    = Baud(cfgetispeed(mode)) \o " " \o Baud(cfgetospeed(mode))
        /\ argv = <<"ispeed", "300", "ospeed", "9600", "speed">> =>
                PrintedSpeed = "300 9600"
        /\ argv = <<"ispeed", "0", "ospeed", "9600", "speed">> =>
                PrintedSpeed = "9600"
        /\ argv = <<"9600", "speed">> => PrintedSpeed = "9600"

(* C9 as the code has it.  A bare speed token sets both speeds to the      *)
(* named value; the line of the speed operand is the output speed alone    *)
(* when the input speed is 0 or equals the output speed, and the two       *)
(* tokens "<input> <output>" otherwise: ispeed 300 ospeed 9600 prints      *)
(* 300 9600, ispeed 0 ospeed 9600 prints 9600.                             *)
C9_SpeedPairing == []C9_SpeedLine /\ [][C9_BareSpeedStep]_vars

\* the two speeds set apart and printed
C9_SplitSpeedsPrinted ==
    /\ SpeedPrinted
    /\ argv = <<"ispeed", "300", "ospeed", "9600", "speed">>
    /\ out = <<"300 9600">>

----------------------------------------------------------------------------
----------------------------------------------------------------------------
\* the index of the first operand: past the leading flags and one "--"
RECURSIVE FirstOperand(_)
FirstOperand(i) ==
    IF i > Len(argv) THEN i
    ELSE IF argv[i] \in {"-a", "-g", "-ag", "-ga"} THEN FirstOperand(i + 1)
    ELSE IF argv[i] = "--" THEN i + 1
    ELSE i

\* the operand tokens that remain after the flags
OperandTokens == Len(argv) - FirstOperand(1) + 1

\* the Display Formatter has run: it asks the terminal of standard output
\* for its width before anything else
Dumped == outcols # -1

\* the lines the run prints before any dump
LinesBeforeDump ==
    (IF gflag THEN 1 ELSE 0) + (IF output_size_requested THEN 1 ELSE 0)
        + (IF output_speed_requested THEN 1 ELSE 0)

(* C11.  On a successful run the dump of the Display Formatter is emitted  *)
(* exactly when -g is absent and -a is present or no operand token remains *)
(* after the flags; with -g the first line is "=" and the hex of the final *)
(* working state, it is the only line of that form, and no dump follows.   *)
C11_DumpIffNoG ==
    (pc = "done" /\ status = 0) =>
        /\ Dumped <=> (~gflag /\ (aflag \/ OperandTokens = 0))
        /\ Dumped =>
                SubSeq(out, LinesBeforeDump + 1, Len(out))
                    = displaysettings(mode, aflag, winsize, outcols)
        /\ ~Dumped => Len(out) = LinesBeforeDump
        /\ gflag =>
                /\ out[1] = "=" \o encodehex(mode)
                /\ Len(out[1]) = 1 + 2 * TermiosSize
                /\ Len(out) = LinesBeforeDump
        /\ \A n \in 1..Len(out) :
                CharAt(out[n], 1) = "=" => (gflag /\ n = 1)

\* -g and nothing else: no operand remains, and yet only the hex line
C11_HexLineOnly ==
    /\ pc = "done"
    /\ status = 0
    /\ argv = <<"-g">>
    /\ ~Dumped
    /\ out = <<StateLine(mode)>>

----------------------------------------------------------------------------
\* the operands that take a value
KeyNames == {keys[i].op : i \in 1..Len(keys)}

IntNames == {ints[i].op : i \in 1..Len(ints)}

ValueNames == KeyNames \cup IntNames \cup {"line"}

\* the flag groups and the three requests are as they were
FlagsAndRequestsKept ==
    /\ mode'.c_iflag = mode.c_iflag
    /\ mode'.c_oflag = mode.c_oflag
    /\ mode'.c_cflag = mode.c_cflag
    /\ mode'.c_lflag = mode.c_lflag
    /\ drain_requested' = drain_requested
    /\ output_size_requested' = output_size_requested
    /\ output_speed_requested' = output_speed_requested

\* the speeds are as they were, but for the one an ispeed or ospeed names
SpeedsKept ==
    /\ argv[argp] # "ispeed" => cfgetispeed(mode') = cfgetispeed(mode)
    /\ argv[argp] # "ospeed" => cfgetospeed(mode') = cfgetospeed(mode)

\* C12, the step at an operand that takes a value
C12_ValueStep ==
    AtOperand(ValueNames) =>
        IF argp = Len(argv)
        THEN /\ pc' = "done"
             /\ status' = 1
             /\ stderr' = MissingArgument(argv[argp])
             /\ mode' = mode
             /\ winsize' = winsize
             /\ calls' = calls
        ELSE \/ /\ pc' = "operands"
                /\ argp' = argp + 2
                /\ FlagsAndRequestsKept
                /\ SpeedsKept
             \/ /\ pc' = "done"
                /\ status' = 1
                /\ stderr' \notin {"", MissingArgument(argv[argp])}
                /\ argp' = argp

(* C12.  A key operand, an integer-valued operand and line each take the   *)
(* one token that follows as their value, and the loop goes on with the    *)
(* token after it: the value is never resolved as an operand, so the flag  *)
(* groups, the requests and the other speed stay as they were.  When such  *)
(* an operand is the last token the run ends with MissingArgument and a    *)
(* non-zero status, and nothing past the end of the list is read.          *)
C12_ValueConsumed == [][C12_ValueStep]_vars

\* four operands whose values are all speed names: no speed has changed
C12_ValuesNotOperands ==
    /\ pc = "done"
    /\ status = 0
    /\ argv = <<"min", "50", "intr", "0", "rows", "9600", "line", "0">>
    /\ mode.c_cc[VMIN] = 50
    /\ mode.c_cc[VINTR] = 48
    /\ winsize.ws_row = 9600
    /\ cfgetispeed(mode) = B38400
    /\ cfgetospeed(mode) = B38400

----------------------------------------------------------------------------
\* s without its leading characters of cs
RECURSIVE DropWhile(_, _)
DropWhile(s, cs) ==
    IF Len(s) > 0 /\ CharAt(s, 1) \in cs THEN DropWhile(Tail(s), cs) ELSE s

\* the decimal numerals of 0..255
ByteNumerals == {ToString(n) : n \in 0..255}

\* tok without leading blanks and without its sign
Unsigned(tok) == DropWhile(DropWhile(tok, {" "}), {"+", "-"})

\* the digits of tok without leading zeros, "0" for zero
Magnitude(tok) ==
    IF DropWhile(Unsigned(tok), {"0"}) = "" THEN "0"
    ELSE DropWhile(Unsigned(tok), {"0"})

\* tok is a decimal integer: blanks, at most one sign, one or more digits
IsDecimal(tok) ==
    /\ Len(Unsigned(tok)) > 0
    /\ Len(DropWhile(tok, {" "})) - Len(Unsigned(tok)) <= 1
    /\ Chars(Unsigned(tok)) \subseteq Chars("0123456789")

\* tok is a decimal integer of 0..255
NamesByte(tok) ==
    /\ IsDecimal(tok)
    /\ Magnitude(tok) \in ByteNumerals
    /\ (Magnitude(tok) # "0" => "-" \notin Chars(tok))

ByteNamed(tok) == CHOOSE n \in 0..255 : ToString(n) = Magnitude(tok)

\* C13, the step at min: a value of 0..255 is stored, any other ends the run
C13_MinStep ==
    (AtOperand({"min"}) /\ HasArg1) =>
        IF NamesByte(Arg1)
        THEN /\ pc' = "operands"
             /\ argp' = argp + 2
             /\ mode' = [mode EXCEPT !.c_cc[VMIN] = ByteNamed(Arg1)]
        ELSE /\ pc' = "done"
             /\ status' = 1
             /\ stderr' # ""
             /\ mode' = mode
             /\ winsize' = winsize
             /\ calls' = calls

\* C13, the dump with -a of a state min has set
C13_MinShown ==
    (pc = "done" /\ status = 0 /\ argv[1] = "min") =>
        /\ mode.c_cc[VMIN] = ByteNamed(argv[2])
        /\ \E n \in 1..Len(out) :
                HasToken(out[n], "min = " \o ToString(ByteNamed(argv[2])) \o ";")

(* C13.  min N is accepted exactly when N is a decimal integer of 0..255:  *)
(* any other value ends the run with a non-zero status and the operand     *)
(* changes nothing, and a value of the range sets the minimum read count   *)
(* to N, so that the dump with -a of that state has the token "min = N;".  *)
C13_MinRange == []C13_MinShown /\ [][C13_MinStep]_vars

\* min 12 on a line whose minimum read count was not 12, then the dump
C13_MinTwelveShown ==
    /\ pc = "done"
    /\ status = 0
    /\ argv = <<"min", "12">>
    /\ mode2.c_cc[VMIN] # 12
    /\ mode.c_cc[VMIN] = 12
    /\ \E n \in 1..Len(out) : HasToken(out[n], "min = 12;")

----------------------------------------------------------------------------
\* C14, the step at a parity combination, in either polarity
C14_ParityStep ==
    /\ AtOperand({"evenp", "parity"}) =>
            mode'.c_cflag = ((mode.c_cflag \ CSIZE) \ PARODD) \cup CS7 \cup PARENB
    /\ AtOperand({"oddp"}) =>
            mode'.c_cflag = (mode.c_cflag \ CSIZE) \cup CS7 \cup PARENB \cup PARODD
    /\ AtOperand({"-evenp", "-parity", "-oddp"}) =>
            mode'.c_cflag = ((mode.c_cflag \ CSIZE) \ PARENB) \cup CS8
    /\ AtOperand({"evenp", "parity", "oddp", "-evenp", "-parity", "-oddp"}) =>
            /\ mode'.c_iflag = mode.c_iflag
            /\ mode'.c_oflag = mode.c_oflag
            /\ mode'.c_lflag = mode.c_lflag

(* C14.  evenp, parity and oddp, in either polarity, recompute the         *)
(* character size and the parity bits of the control flag group: set, CS7  *)
(* with PARENB, and PARODD cleared for even and set for odd; unset, CS8    *)
(* with PARENB cleared.  The input, output and local flag groups are left  *)
(* as they were.                                                           *)
C14_ParityInControlGroup == [][C14_ParityStep]_vars

----------------------------------------------------------------------------
\* the catalog entries that address a flag group
Primitives == {k \in 1..Len(modes) : BitsField(modes[k].type) # ""}

\* the bits an entry is read by: its clear mask, or its set bits if none
MaskOf(op) == IF op.clear # {} THEN op.clear ELSE op.set

\* the entry's bits of state m are at its set value
IsSet(op, m) == (m[BitsField(op.type)] \cap MaskOf(op)) = op.set

\* C15, the step at sane
C15_SaneStep ==
    AtOperand({"sane"}) =>
        /\ \A k \in Primitives :
            /\ SANE \subseteq modes[k].flags => IsSet(modes[k], mode')
            /\ INSANE \subseteq modes[k].flags => ~IsSet(modes[k], mode')
        /\ \A k \in 1..Len(keys) : mode'.c_cc[keys[k].index] = keys[k].sanevalue
        /\ mode'.c_cc[VMIN] = 1
        /\ mode'.c_cc[VTIME] = 0
        /\ argp' = argp + 1

(* C15.  From any state, after sane every SANE-tagged entry of a flag      *)
(* group has its bits at its set value and every INSANE-tagged one has     *)
(* not, negatable or not, and every control character has its sane value,  *)
(* with min 1 and time 0.                                                  *)
C15_SaneExpansion == [][C15_SaneStep]_vars

\* sane from the state with every flag set and no key at its sane value
C15_SaneFromAllSet ==
    /\ argv = <<"sane">>
    /\ argp = 2
    /\ mode2 = AllSet
    /\ mode.c_iflag \cap (IGNCR \cup INLCR \cup IGNBRK) = {}
    /\ mode.c_oflag \cap (BSDLY \cup TABDLY \cup CRDLY) = {}
    /\ mode.c_cc[VINTR] = CINTR

----------------------------------------------------------------------------
\* the names of the entries that address a flag group
PrimitiveNames == {modes[k].op : k \in Primitives}

\* the operand the loop is at, without its hyphen
NameAt == IF CharAt(argv[argp], 1) = "-" THEN Tail(argv[argp]) ELSE argv[argp]

\* the loop is at an entry of a flag group, bare or negated
AtPrimitive ==
    /\ pc = "operands"
    /\ argp <= Len(argv)
    /\ NameAt \in PrimitiveNames
    /\ (NameAt # argv[argp] => NameAt \in BoolOps)

\* what a step leaves of flag word f when it applies entry op
Applied(op, f) ==
    /\ mode' = [mode EXCEPT ![f] = mode'[f]]
    /\ mode'[f] \ (op.set \cup op.clear) = mode[f] \ (op.set \cup op.clear)
    /\ IF NameAt = argv[argp]
       THEN /\ op.set \subseteq mode'[f]
            /\ (op.clear \ op.set) \cap mode'[f] = {}
       ELSE (op.set \cup op.clear) \cap mode'[f] = {}
    /\ (op.clear # {} /\ NameAt = argv[argp]) => (mode'[f] \cap op.clear) = op.set

\* C16, the step at an entry of a flag group
C16_PrimitiveStep ==
    AtPrimitive => Applied(Entry(NameAt), BitsField(Entry(NameAt).type))

(* C16.  Applying an entry of a flag group takes its clear bits out first  *)
(* and then puts its set bits in (set polarity) or takes them out (unset   *)
(* polarity): after a member of a field (cs5..cs8, bs0/bs1, cr0..cr3,      *)
(* ff0/ff1, nl0/nl1, tab0..tab3, vt0/vt1) the field holds exactly that     *)
(* member's encoding whatever it held, and no bit outside the entry's set  *)
(* and clear masks, and nothing outside its flag group, changes.           *)
C16_ClearThenSet == [][C16_PrimitiveStep]_vars

\* cs7 on a line that had eight-bit characters, both bits of the field set
C16_NarrowerSize ==
    /\ argv = <<"cs7">>
    /\ argp = 2
    /\ CS8 \subseteq mode2.c_cflag
    /\ mode.c_cflag \cap CSIZE = CS7
    /\ mode.c_cflag \ CSIZE = mode2.c_cflag \ CSIZE

----------------------------------------------------------------------------
\* the loop is at a hyphen and the name of a mode operand
AtNegatedMode ==
    /\ pc = "operands"
    /\ argp <= Len(argv)
    /\ NameAt # argv[argp]
    /\ NameAt \in BoolOps \cup NonBoolOps

\* C17, the step at a hyphen-prefixed mode operand
C17_NegatedStep ==
    AtNegatedMode =>
        IF NameAt \in NonBoolOps
        THEN /\ pc' = "done"
             /\ status' = 1
             /\ stderr' = InvalidOperand(argv[argp])
             /\ mode' = mode
             /\ drain_requested' = drain_requested
             /\ output_size_requested' = output_size_requested
             /\ output_speed_requested' = output_speed_requested
             /\ winsize' = winsize
             /\ calls' = calls
        ELSE /\ pc' = "operands"
             /\ argp' = argp + 1
             /\ stderr' = ""
             /\ status' = status

(* C17.  A hyphen and the name of a mode operand that is not BOOL-tagged   *)
(* (cs5..cs8, the delay selectors, crt, dec, ek, sane, size, speed) ends   *)
(* the run with InvalidOperand, and the working state and the requests are *)
(* as they were; a hyphen and the name of a BOOL-tagged one is accepted.   *)
C17_NegationNeedsBool == [][C17_NegatedStep]_vars

\* -sane on a state that sane would change: refused, the state untouched
C17_NegatedSaneRefused ==
    /\ pc = "done"
    /\ status = 1
    /\ argv = <<"-sane">>
    /\ stderr = InvalidOperand("-sane")
    /\ mode2 = AllSet
    /\ mode = AllSet

----------------------------------------------------------------------------
\* each alias with the entry it stands for
AliasPairs ==
    { <<"hup", "hupcl">>, <<"tandem", "ixoff">>, <<"crterase", "echoe">>,
      <<"crtkill", "echoke">>, <<"ctlecho", "echoctl">>,
      <<"prterase", "echoprt">>, <<"LCASE", "lcase">>, <<"parity", "evenp">>,
      <<"cooked", "-raw">>, <<"-cooked", "raw">> }

\* the operand with the polarity turned
Opposite(x) == IF CharAt(x, 1) = "-" THEN Tail(x) ELSE "-" \o x

\* C18, the step at an alias: the state is the one its entry would give
C18_AliasStep ==
    \A pr \in AliasPairs :
        /\ AtOperand({pr[1]}) => mode' = parseoperand_mode(pr[2], St).st.mode
        /\ (AtOperand({Opposite(pr[1])}) /\ pr[1] \notin {"cooked", "-cooked"}) =>
                mode' = parseoperand_mode(Opposite(pr[2]), St).st.mode

\* what a DUP-tagged entry would be printed as
DupTokens ==
    UNION {{modes[k].op, "-" \o modes[k].op} :
                k \in {j \in 1..Len(modes) : DUP \subseteq modes[j].flags}}

\* the dump in out is made of the tokens toks, none of them of an alias
DumpWithoutAlias(toks) ==
    /\ out = PrintAll(EmptyBuf, TokenWidth(outcols), toks, 1, Len(toks)).lines
    /\ {toks[i] : i \in 1..Len(toks)} \cap DupTokens = {}

\* C18, the dump: no token is a DUP-tagged entry
C18_NoAliasPrinted ==
    (pc \in {"done", "dumped"} /\ status = 0) =>
        DumpWithoutAlias(DisplayTokens(mode, pc = "dumped", winsize))

(* C18.  A DUP-tagged alias gives, from every state and in both            *)
(* polarities, the state its entry gives: hup/hupcl, tandem/ixoff,         *)
(* crterase/echoe, crtkill/echoke, ctlecho/echoctl, prterase/echoprt,      *)
(* LCASE/lcase, parity/evenp, cooked as -raw and -cooked as raw; and no    *)
(* token of a dump, of everything or of the differences, is a DUP-tagged   *)
(* entry.                                                                  *)
C18_AliasesEquivalent == []C18_NoAliasPrinted /\ [][C18_AliasStep]_vars

\* hup and -hup on a line that had HUPCL, then the dump of everything
C18_HupShownAsHupcl ==
    /\ pc = "dumped"
    /\ argv = <<"hup", "-hup">>
    /\ HUPCL \subseteq mode2.c_cflag
    /\ mode.c_cflag \cap HUPCL = {}
    /\ \E n \in 1..Len(out) : HasToken(out[n], "-hupcl")
    /\ \A n \in 1..Len(out) : ~HasToken(out[n], "-hup ")

----------------------------------------------------------------------------
\* the code of c with the bits 0x60 cleared
WithoutBits60(c) ==
    Ord(c) - 32 * ((Ord(c) \div 32) % 2) - 64 * ((Ord(c) \div 64) % 2)

\* what a value token of one character or more decodes to: [ok, val], ok
\* FALSE when the run is to fail
Decoded(v) ==
    IF v \in {"^-", "undef"} THEN [ok |-> TRUE, val |-> POSIX_VDISABLE]
    ELSE IF v = "^?" THEN [ok |-> TRUE, val |-> 127]
    ELSE IF Len(v) = 1 THEN [ok |-> TRUE, val |-> Ord(v)]
    ELSE IF Len(v) >= 2 /\ CharAt(v, 1) = "^"
    THEN [ok |-> TRUE, val |-> WithoutBits60(CharAt(v, 2))]
    ELSE [ok |-> estrtonum_anyradix(v, 0, 255).err = "",
          val |-> estrtonum_anyradix(v, 0, 255).val]

\* the step at a key operand stores d.val in its role, or ends the run
KeyStep(d) ==
    /\ IF d.ok
       THEN /\ pc' = "operands"
            /\ argp' = argp + 2
            /\ mode' = [mode EXCEPT !.c_cc[keys[Find(keys, "op", argv[argp])].index] = d.val]
       ELSE /\ pc' = "done"
            /\ status' = 1
            /\ stderr' \notin {"", MissingArgument(argv[argp])}
            /\ mode' = mode
    /\ (Arg1 \in ByteNumerals /\ Len(Arg1) >= 2) =>
            (d.ok /\ ToString(d.val) = Arg1)

(* C19 as claimed.  The value token of a key operand decodes so: "^-" and  *)
(* "undef" give the disabled sentinel, "^?" gives 127, a single character  *)
(* its byte value, any other token of two characters or more that starts   *)
(* with "^" its second character with the bits 0x60 cleared, and every     *)
(* remaining token, the empty one among them, is parsed as an integer      *)
(* literal that must lie in 0..255 or the run fails; the byte is stored in *)
(* the named role and no other control character changes.                  *)
C19_EveryOtherTokenANumber ==
    [][(AtOperand(KeyNames) /\ HasArg1) => KeyStep(Decoded(Arg1))]_vars

(* C19 as the code has it.  The same, but for the empty token, which is    *)
(* not parsed as a number: it gives the byte 0.                            *)
C19_KeyDecoding ==
    [][(AtOperand(KeyNames) /\ HasArg1) =>
            KeyStep(IF Arg1 = "" THEN [ok |-> TRUE, val |-> 0]
                    ELSE Decoded(Arg1))]_vars

\* intr with the empty token on a line whose intr was not 0
C19_EmptyTokenStored ==
    /\ argv = <<"intr", "">>
    /\ argp = 3
    /\ status = 0
    /\ mode2.c_cc[VINTR] # 0
    /\ mode.c_cc[VINTR] = 0
    /\ mode = [mode2 EXCEPT !.c_cc[VINTR] = 0]

----------------------------------------------------------------------------
\* the entries of a flag group that are no alias
Shown == {k \in Primitives : (modes[k].flags \cap DUP) = {}}

\* the entry's default polarity is set
DefaultSet(op) == (op.flags \cap (SANE \cup DEFLT)) # {}

\* the token of entry k in state m: bare when its bits are at its set
\* value, with a hyphen when they are not and it is BOOL-tagged; in the
\* differences only when the polarity is not the default one
Expected(k, m, all) ==
    IF k \notin Shown THEN <<>>
    ELSE IF IsSet(modes[k], m)
    THEN IF all \/ ~DefaultSet(modes[k]) THEN <<modes[k].op>> ELSE <<>>
    ELSE IF BOOL \subseteq modes[k].flags /\ (all \/ DefaultSet(modes[k]))
    THEN <<"-" \o modes[k].op>>
    ELSE <<>>

\* the tokens of the entries lo..hi, in catalog order
RECURSIVE ExpectedTokens(_, _, _, _)
ExpectedTokens(m, all, lo, hi) ==
    IF lo > hi THEN <<>>
    ELSE IF lo = hi THEN Expected(lo, m, all)
    ELSE ExpectedTokens(m, all, lo, (lo + hi) \div 2)
            \o ExpectedTokens(m, all, (lo + hi) \div 2 + 1, hi)

\* the texts of strs lo..hi with one blank between them
RECURSIVE Joined(_, _, _)
Joined(strs, lo, hi) ==
    IF lo > hi THEN ""
    ELSE IF lo = hi THEN strs[lo]
    ELSE Joined(strs, lo, (lo + hi) \div 2) \o " "
            \o Joined(strs, (lo + hi) \div 2 + 1, hi)

\* str ends with the text tail, after a blank or as a whole
EndsWith(str, tail) ==
    /\ Len(tail) <= Len(str)
    /\ SubSeq(str, Len(str) - Len(tail) + 1, Len(str)) = tail
    /\ (Len(tail) < Len(str) /\ Len(tail) > 0)
            => CharAt(str, Len(str) - Len(tail)) = " "

\* the masks of the fields
Fields == {CSIZE, BSDLY, CRDLY, FFDLY, NLDLY, TABDLY, VTDLY}

\* the places of toks that name entry k, in either polarity
PlacesOf(toks, k) ==
    {i \in 1..Len(toks) : toks[i] \in {modes[k].op, "-" \o modes[k].op}}

\* the tokens toks of the mode group are the expected ones, and the dump
\* in out ends with them
ModeGroupIs(toks, all) ==
    /\ toks = ExpectedTokens(mode, all, 1, Len(modes))
    /\ Len(toks) > 0 => EndsWith(Joined(out, 1, Len(out)), Joined(toks, 1, Len(toks)))
    /\ all =>
        /\ \A k \in Shown :
                BOOL \subseteq modes[k].flags => Cardinality(PlacesOf(toks, k)) = 1
        /\ \A F \in Fields :
                Cardinality(UNION {PlacesOf(toks, k) :
                                    k \in {j \in Shown : modes[j].clear = F}}) = 1

(* C20.  For every state and every entry of a flag group that is no alias, *)
(* the dump of everything prints the entry bare when its bits are at its   *)
(* set value and with a hyphen when they are not and it is BOOL-tagged, so *)
(* that every boolean entry appears exactly once and exactly one member of *)
(* each field; the dump of the differences prints that same token only     *)
(* when the polarity is not the entry's default one, which is set for the  *)
(* SANE- and DEF-tagged entries and unset for the others.                  *)
C20_ModeGroup ==
    (pc \in {"done", "dumped"} /\ status = 0) =>
        ModeGroupIs(ModeTokens(mode, pc = "dumped", 1, Len(modes)), pc = "dumped")

\* cs7 on a sane line, then the dump of everything: cs7 and not cs8
C20_FieldMemberShown ==
    /\ pc = "dumped"
    /\ argv = <<"cs7">>
    /\ mode2 = SaneDev
    /\ \E n \in 1..Len(out) : HasToken(out[n], "cs7") /\ HasToken(out[n], "-parenb")
    /\ \A n \in 1..Len(out) : ~HasToken(out[n], "cs8")

----------------------------------------------------------------------------
\* a text that is neither empty nor the forced break
IsText(str) == str # "" /\ str # "\n"

\* every text given so far fits in width characters
AllFit(width) == \A i \in 1..Len(calls) : Len(calls[i].arg) <= width

\* C21, the lines after any sequence of calls: lb is the line buffer
LinesOk(lb, width) ==
    /\ out = lb.lines
    /\ lb.pos = Len(lb.cur)
    /\ Joined(SelectSeq(Append(out, lb.cur), IsText), 1,
              Len(SelectSeq(Append(out, lb.cur), IsText)))
            = Joined(SelectSeq(PrintedTexts, IsText), 1,
                     Len(SelectSeq(PrintedTexts, IsText)))
    /\ AllFit(width) =>
            /\ Len(lb.cur) <= width
            /\ \A n \in 1..Len(out) : Len(out[n]) <= width /\ out[n] # ""

C21_Lines == pc = "print" => LinesOk(Buffer, TokenWidth(outcols))

\* C21, the last call made: lb is the line buffer before it, nb the one
\* after it
CallOk(lb, nb, tok, width) ==
    IF tok = "\n"
    THEN /\ out = IF lb.cur # "" THEN Append(lb.lines, lb.cur) ELSE lb.lines
         /\ nb.cur = ""
    ELSE IF Len(lb.cur) + (IF lb.cur # "" THEN 1 ELSE 0) + Len(tok) > width
    THEN /\ out = Append(lb.lines, lb.cur)
         /\ nb.cur = tok
    ELSE /\ out = lb.lines
         /\ nb.cur = IF lb.cur # "" THEN lb.cur \o " " \o tok ELSE tok

C21_Call ==
    (pc = "print" /\ calls # <<>>) =>
        CallOk(PrintAll(EmptyBuf, TokenWidth(outcols), PrintedTexts, 1,
                        Len(calls) - 1),
               Buffer, calls[Len(calls)].arg, TokenWidth(outcols))

(* C21.  Over any sequence of texts and forced breaks given to printtoken  *)
(* with the column width W: the texts of one line are one blank apart, a   *)
(* text that would take the line past W starts a new line, no line is      *)
(* longer than W as long as no single text is, and a forced break ends the *)
(* line only when there is something on it, so that forced breaks in a row *)
(* leave no empty line.                                                    *)
C21_LineBuffer == C21_Lines /\ C21_Call

\* 41 columns: two texts fill the line to the last column, the third
\* starts a new one, and two forced breaks in a row end it once
C21_WrappedAndBroken ==
    /\ pc = "print"
    /\ outcols = 41
    /\ PrintedTexts = <<Filled(20), Filled(20), Filled(1), "\n", "\n">>
    /\ out = <<Filled(20) \o " " \o Filled(20), Filled(1)>>

----------------------------------------------------------------------------
DrainNames == {"drain", "-drain"}

\* the place of the last drain or -drain among argv[1..i], 0 if there is none
RECURSIVE LastDrain(_)
LastDrain(i) ==
    IF i = 0 THEN 0
    ELSE IF argv[i] \in DrainNames THEN i
    ELSE LastDrain(i - 1)

\* the last drain or -drain of the argument list is -drain
ImmediateAsked ==
    /\ LastDrain(Len(argv)) # 0
    /\ argv[LastDrain(Len(argv))] = "-drain"

\* every operand of the argument list is drain or -drain
OnlyDrains ==
    \A i \in FirstOperand(1)..Len(argv) : argv[i] \in DrainNames

\* C22, in every state: how the terminal was written, if it was
C22_Commits ==
    /\ \A i \in TcsetattrCalls :
            calls[i].arg.when =
                IF ImmediateAsked THEN "TCSANOW" ELSE "TCSADRAIN"
    /\ OnlyDrains => ~Written

\* C22, the step at drain or -drain
C22_DrainStep ==
    AtOperand(DrainNames) =>
        /\ pc' = "operands"
        /\ argp' = argp + 1
        /\ drain_requested' = (argv[argp] = "drain")
        /\ mode' = mode
        /\ mode2' = mode2
        /\ dev' = dev
        /\ winsize' = winsize
        /\ calls' = calls
        /\ output_size_requested' = output_size_requested
        /\ output_speed_requested' = output_speed_requested
        /\ out' = out
        /\ stderr' = stderr

(* C22.  A commit waits for the pending output to drain before it applies  *)
(* the state, unless the last drain or -drain of the argument list is      *)
(* -drain, and then it applies at once; with neither in the list it waits. *)
(* drain and -drain leave the working state as it is, so a run with no     *)
(* other operand never commits.                                            *)
C22_DrainOrNow == []C22_Commits /\ [][C22_DrainStep]_vars

\* -drain, then drain, then cs7 on a terminal that had another character
\* size: the run ends well and its commit waited
C22_LastOneWins ==
    /\ argv = <<"-drain", "drain", "cs7">>
    /\ \E i \in TcsetattrCalls : calls[i].arg.when = "TCSADRAIN"
    /\ pc = "done"
    /\ status = 0

====
